---- MODULE Spec2Model ----
(***************************************************************************)
(* Offer / OfferDetail lifecycle of the Coderr backend: the requests       *)
(* GET/POST /offers/ and GET/PATCH/PUT/DELETE /offers/<pk>/ acting on the  *)
(* Offer and OfferDetail tables.                                           *)
(*                                                                         *)
(* Prices are FloatField values; they are modelled as integers counting    *)
(* thousandths (10.556 is 10556), so that round(price, 2) is a real        *)
(* conversion.  A request entry (a JSON object) is a function whose DOMAIN *)
(* is the set of keys the client sent.                                     *)
(*                                                                         *)
(* Offer.created_at follows the id (both grow with every insert);          *)
(* Offer.updated_at (auto_now) is modelled by the order of the saves:      *)
(* "saved" lists the ids of the offers, least recently saved first.        *)
(* "inflight" holds the requests that are between two of their database    *)
(* statements, one per client connection.                                  *)
(***************************************************************************)
EXTENDS Integers, Sequences, FiniteSets, TLC

VARIABLES offers, details, nextOfferId, nextDetailId, last, saved, inflight,
          reviews, nextReviewId, orders, nextOrderId, users, profiles

vars ==
    <<offers, details, nextOfferId, nextDetailId, last, saved, inflight,
      reviews, nextReviewId, orders, nextOrderId, users, profiles>>

\* the Review table and the Order table with their id sequences
reviewVars == <<reviews, nextReviewId>>

orderVars == <<orders, nextOrderId>>

\* the User rows made by registration and the Profile table
accountVars == <<users, profiles>>

(***************************************************************************)
(* Bounds of the model.                                                    *)
(***************************************************************************)
\* number of offers ever created (AutoField ids are never reused)
MaxOffers == 2
\* number of offer details ever created
MaxDetails == 2

(***************************************************************************)
(* Users, their is_staff flag and their Profile (one-to-one, may be        *)
(* missing).  "anon" is the AnonymousUser of an unauthenticated request.   *)
(***************************************************************************)
Anonymous == "anon"

Users == {"alice", "bob", "carol", "dave", "erin"}

Callers == Users \cup {Anonymous}

is_staff(user) == user \in {"carol", "dave", "erin"}

\* Profile.type of the user's profile, "none" when the user has no Profile
\* row (for instance a superuser made on the command line).
profile_type(user) ==
    CASE user \in {"alice", "erin"} -> "business"
      [] user \in {"bob", "carol"}  -> "customer"
      [] OTHER                      -> "none"

is_authenticated(user) == user # Anonymous

(***************************************************************************)
(* OfferDetail model: field defaults, choices and the price rounding.      *)
(***************************************************************************)
OFFER_TYPES == {"basic", "standard", "premium"}

\* thousandths in one currency unit: the literal 1 of default=1 and of
\* "value <= 1" is PriceUnit thousandths
PriceUnit == 1000

DefaultPrice == 1 * PriceUnit

DefaultDeliveryTime == 1

DefaultRevisions == -1

\* writable fields of OfferDetailSerializer / OfferSingleDetailsSerializer
\* (id is an AutoField and therefore read-only in a ModelSerializer)
DetailWritable ==
    {"title", "revisions", "delivery_time_in_days", "price", "features", "offer_type"}

\* columns QuerySet.update(**kwargs) accepts for an OfferDetail
DetailColumns == DetailWritable \cup {"id", "offer"}

\* round(p, 2) on thousandths, ties to even as Python rounds
Round2(p) ==
    LET q == p \div 10
        r == p % 10
    IN  10 * (IF r > 5 \/ (r = 5 /\ q % 2 = 1) THEN q + 1 ELSE q)

\* OfferDetail.round_price
round_price(d) == [d EXCEPT !.price = Round2(d.price)]

\* OfferDetail.save: rounds, then writes the row
save_detail(ds, d) == {x \in ds : x.id # d.id} \cup {round_price(d)}

(***************************************************************************)
(* OfferDetailSerializer: the detail validator.                            *)
(***************************************************************************)
Has(e, k) == k \in DOMAIN e

validate_delivery_time_in_days(value) == ~(value < 1)

\* a price check that lets the boundary value through
validate_price_below_one(value) == ~(value < 1 * PriceUnit)

validate_price(value) == ~(value <= 1 * PriceUnit)

validate_revisions(value) == ~(value < -1)

validate_features(value) == value # <<>>

\* the set of fields OfferDetailSerializer(data=e).errors reports
DetailErrors(e) ==
    {k \in DetailWritable :
        \/ k = "title" /\ ~Has(e, k)
        \/ k = "delivery_time_in_days" /\ Has(e, k)
             /\ ~validate_delivery_time_in_days(e[k])
        \/ k = "price" /\ Has(e, k) /\ ~validate_price(e[k])
        \/ k = "revisions" /\ Has(e, k) /\ ~validate_revisions(e[k])
        \/ k = "features" /\ (~Has(e, k) \/ ~validate_features(e[k]))
        \/ k = "offer_type" /\ (~Has(e, k) \/ e[k] \notin OFFER_TYPES)}

DetailValid(e) == DetailErrors(e) = {}

\* serializer.validated_data: the writable fields the client sent
ValidatedDetail(e) == [k \in DOMAIN e \cap DetailWritable |-> e[k]]

Indices(s) == 1 .. Len(s)

\* OfferSerializer.validate / AllOfferDetailsSerializer.validate: the list
\* of error sets, one per failing entry, in request order
RECURSIVE CollectErrors(_)
CollectErrors(ds) ==
    IF ds = <<>> THEN <<>>
    ELSE (IF DetailValid(Head(ds)) THEN <<>> ELSE <<DetailErrors(Head(ds))>>)
         \o CollectErrors(Tail(ds))

\* details_data = self.initial_data.get('details', [])
InitialDetails(body) == IF Has(body, "details") THEN body.details ELSE <<>>

\* a validate that stops after the first entry
validate_first_only(body) ==
    InitialDetails(body) = <<>> \/ DetailValid(Head(InitialDetails(body)))

validate(body) == CollectErrors(InitialDetails(body)) = <<>>

validated_details(body) ==
    [i \in Indices(InitialDetails(body)) |-> ValidatedDetail(InitialDetails(body)[i])]

(***************************************************************************)
(* Rows.  An Offer row is [id, user, title, description, image]; an        *)
(* OfferDetail row is [id, offer, title, revisions, delivery_time_in_days, *)
(* price, features, offer_type].  NoImage is the NULL image.               *)
(***************************************************************************)
NoImage == "null"

OfferIds == 1 .. MaxOffers

DetailIds == 1 .. MaxDetails

OfferById(os, pk) == CHOOSE o \in os : o.id = pk

OfferExists(os, pk) == \E o \in os : o.id = pk

\* obj.details.all()
DetailsOf(ds, pk) == {d \in ds : d.offer = pk}

\* OfferDetail(offer=offer, **detail): absent fields take the model defaults
NewDetail(id, pk, vd) ==
    [id |-> id,
     offer |-> pk,
     title |-> vd.title,
     revisions |-> IF Has(vd, "revisions") THEN vd.revisions ELSE DefaultRevisions,
     delivery_time_in_days |->
         IF Has(vd, "delivery_time_in_days") THEN vd.delivery_time_in_days
         ELSE DefaultDeliveryTime,
     price |-> IF Has(vd, "price") THEN vd.price ELSE DefaultPrice,
     features |-> vd.features,
     offer_type |-> vd.offer_type]

\* OfferDetail.objects.bulk_create(...): inserts the rows as built; the
\* model's save() is not called for them
bulk_create(ds, firstId, pk, vds) ==
    ds \cup {NewDetail(firstId + i - 1, pk, vds[i]) : i \in Indices(vds)}

\* Offer.objects.create(**validated_data)
NewOffer(id, user, body) ==
    [id |-> id,
     user |-> user,
     title |-> body.title,
     description |-> body.description,
     image |-> IF Has(body, "image") THEN body.image ELSE NoImage]

(***************************************************************************)
(* Permissions.                                                            *)
(***************************************************************************)
\* an is_business_user that only asks for a profile
is_business_user_any_profile(user) == profile_type(user) # "none"

\* OfferListAPIView.is_business_user: getattr(user, 'profile', None) is
\* None for a user without Profile
is_business_user(user) == profile_type(user) # "none" /\ profile_type(user) = "business"

\* IsOwnerOrAdmin.has_object_permission
has_object_permission(user, offer) == user = offer.user \/ is_staff(user)

\* OfferDetailsAPIView.get_permissions: the permission a method is checked
\* with
get_permissions(method) == IF method = "PATCH" THEN "IsOwnerOrAdmin" ELSE "IsAuthenticated"

\* a get_permissions without the override for GET
list_get_permissions_default(method) == "IsAuthenticated"

\* OfferListAPIView.get_permissions
list_get_permissions(method) == IF method = "GET" THEN "AllowAny" ELSE "IsAuthenticated"

\* has_permission of the permission class: only IsAuthenticated looks at
\* the caller here, IsOwnerOrAdmin and AllowAny inherit "True"
has_permission(perm, user) == perm = "IsAuthenticated" => is_authenticated(user)

\* object-level check made by get_object()
check_object_permissions(perm, user, offer) ==
    perm = "IsOwnerOrAdmin" => has_object_permission(user, offer)

\* OfferDetailsAPIView.has_permission_to_delete evaluates user.profile for
\* a staff non-owner: that raises when the user has no Profile
delete_check_raises(user, offer) ==
    user # offer.user /\ is_staff(user) /\ profile_type(user) = "none"

\* user == offer.user or user.is_staff and (user.profile.type == 'business' or user.is_staff)
has_permission_to_delete(user, offer) ==
    user = offer.user \/ (is_staff(user) /\ (profile_type(user) = "business" \/ is_staff(user)))

\* an unauthenticated caller is refused with NotAuthenticated, which the
\* framework answers 401 or 403 depending on the configured authenticators
NotAuthenticatedStatuses == {401, 403}

(***************************************************************************)
(* Requests the clients send.                                              *)
(***************************************************************************)
\* a complete, valid pricing tier with a price of 10.556
Basic ==
    [title |-> "Basic", revisions |-> 2, delivery_time_in_days |-> 3,
     price |-> 10556, features |-> <<"logo">>, offer_type |-> "basic"]

\* a tier that leaves price, delivery time and revisions to the defaults
Bare == [title |-> "Standard", features |-> <<"logo">>, offer_type |-> "standard"]

BadPrice == [Basic EXCEPT !.price = 1 * PriceUnit]

BadDelivery == [Basic EXCEPT !.delivery_time_in_days = 0]

BadRevisions == [Basic EXCEPT !.revisions = -2]

NoFeatures == [Basic EXCEPT !.features = <<>>]

BadType == [Basic EXCEPT !.offer_type = "gold"]

CreateDetailLists ==
    {<<>>, <<Basic>>, <<Bare>>, <<Basic, Bare>>,
     <<BadPrice>>, <<BadDelivery>>, <<BadRevisions>>, <<NoFeatures>>, <<BadType>>,
     <<Basic, BadPrice>>, <<BadDelivery, Basic>>}

CreateBodies ==
    {[title |-> "Logo", description |-> "text", details |-> ds] : ds \in CreateDetailLists}
    \cup {[title |-> "Logo", description |-> "text"], [title |-> "Logo"]}

\* every body from one business user; one valid and one invalid body from
\* every other kind of caller
CreateRequests ==
    {[caller |-> "alice", body |-> b] : b \in CreateBodies}
    \cup {[caller |-> c, body |-> [title |-> "Logo", description |-> "text", details |-> ds]] :
             c \in Callers \ {"alice", "erin"}, ds \in {<<Basic>>, <<BadPrice>>}}

\* an update entry: every tier field set to new values, price 24.994
Pro ==
    [title |-> "Pro", revisions |-> 5, delivery_time_in_days |-> 7,
     price |-> 24994, features |-> <<"logo", "flyer">>, offer_type |-> "premium"]

WithKey(e, k, v) == [x \in DOMAIN e \cup {k} |-> IF x = k THEN v ELSE e[x]]

ProOf(i) == WithKey(Pro, "id", i)

\* single entries: no identity, every identity; an entry that names only
\* the price; an invalid price; a raw "offer" key; a key that is no column
UpdateEntries ==
    {Pro}
    \cup {ProOf(i) : i \in DetailIds}
    \cup {WithKey([price |-> 24994], "id", i) : i \in DetailIds}
    \cup {WithKey(BadPrice, "id", i) : i \in DetailIds}
    \cup {WithKey(ProOf(i), "offer", o) : i \in DetailIds, o \in OfferIds}
    \cup {WithKey(ProOf(i), "position", 1) : i \in DetailIds}

UpdateDetailLists ==
    {<<>>}
    \cup {<<e>> : e \in UpdateEntries}
    \cup {<<ProOf(1), ProOf(2)>>, <<Pro, ProOf(1)>>, <<ProOf(1), WithKey(ProOf(2), "position", 1)>>}

ScalarPatches ==
    {[title |-> "New"],
     [title |-> "New", description |-> "more", image |-> "logo.png"]}

UpdateBodies ==
    ScalarPatches
    \cup {WithKey(p, "details", <<>>) : p \in ScalarPatches}
    \cup {[details |-> ds] : ds \in UpdateDetailLists}

Methods == {"PATCH", "PUT"}

\* every body as a PATCH from the business user who creates the offers; one
\* body from every caller with either method
UpdateRequests ==
    {[method |-> "PATCH", caller |-> "alice", pk |-> pk, body |-> b] :
         pk \in OfferIds, b \in UpdateBodies}
    \cup {[method |-> m, caller |-> c, pk |-> pk,
           body |-> [title |-> "New", details |-> <<>>]] :
             m \in Methods, c \in Callers, pk \in OfferIds}

NoRequest ==
    [op |-> "none", method |-> "", caller |-> Anonymous, pk |-> 0, body |-> <<>>,
     status |-> 0, code |-> ""]

Response(op, method, caller, pk, body, status, code) ==
    [op |-> op, method |-> method, caller |-> caller, pk |-> pk, body |-> body,
     status |-> status, code |-> code]

\* client connections that may have a request in flight
Clients == {1, 2}

Idle == [pc |-> "idle"]

\* Model.save() of an Offer row sets updated_at to now: the offer becomes
\* the most recently saved one
Touch(sv, pk) == SelectSeq(sv, LAMBDA x : x # pk) \o <<pk>>

\* the row is gone
Forget(sv, pk) == SelectSeq(sv, LAMBDA x : x # pk)

Init ==
    /\ offers = {}
    /\ details = {}
    /\ nextOfferId = 1
    /\ nextDetailId = 1
    /\ last = NoRequest
    /\ saved = <<>>
    /\ inflight = [c \in Clients |-> Idle]
    /\ reviews = {}
    /\ nextReviewId = 1
    /\ orders = {}
    /\ nextOrderId = 1
    /\ users = {}
    /\ profiles = {}

(***************************************************************************)
(* POST /offers/  (CreateModelMixin.create, perform_create,                *)
(* OfferSerializer.validate and OfferSerializer.create)                    *)
(***************************************************************************)
\* field validation of OfferSerializer: title and description are required
CreateFieldsValid(body) == Has(body, "title") /\ Has(body, "description")

\* OfferSerializer.create
create(os, ds, oid, did, user, body) ==
    [offers |-> os \cup {NewOffer(oid, user, body)},
     details |-> bulk_create(ds, did, oid, validated_details(body))]

\* the outcome of the request: status, error code and the tables after it
CreateOutcome(os, ds, oid, did, caller, body) ==
    IF ~has_permission(list_get_permissions("POST"), caller)
    THEN [status |-> 401, code |-> "not_authenticated", offers |-> os, details |-> ds]
    ELSE IF ~(CreateFieldsValid(body) /\ validate(body))
    THEN [status |-> 400, code |-> "invalid", offers |-> os, details |-> ds]
    ELSE IF ~is_business_user(caller)
    THEN [status |-> 403, code |-> "business_profile_required", offers |-> os, details |-> ds]
    ELSE [status |-> 201, code |-> ""] @@ create(os, ds, oid, did, caller, body)

CreateOffer(caller, body) ==
    LET out == CreateOutcome(offers, details, nextOfferId, nextDetailId, caller, body)
        n == Len(InitialDetails(body))
    IN  /\ out.status = 201 => nextOfferId <= MaxOffers /\ nextDetailId + n - 1 <= MaxDetails
        /\ offers' = out.offers
        /\ details' = out.details
        /\ nextOfferId' = IF out.status = 201 THEN nextOfferId + 1 ELSE nextOfferId
        /\ nextDetailId' = IF out.status = 201 THEN nextDetailId + n ELSE nextDetailId
        /\ saved' = IF out.status = 201 THEN Touch(saved, nextOfferId) ELSE saved
        /\ UNCHANGED <<inflight, reviewVars, accountVars, orderVars>>
        /\ \E st \in (IF out.status = 401 THEN NotAuthenticatedStatuses ELSE {out.status}) :
               last' = Response("create", "POST", caller, 0, body, st, out.code)

(***************************************************************************)
(* PATCH and PUT /offers/<pk>/  (OfferDetailsAPIView.update and            *)
(* AllOfferDetailsSerializer)                                              *)
(***************************************************************************)
\* setattr(row, k, v) for every key of the entry that is a column
Assign(row, e) == [k \in DOMAIN row |-> IF Has(e, k) THEN e[k] ELSE row[k]]

\* an update whose filter forgets the id
queryset_update_no_id_filter(ds, detail_id, pk, e) ==
    {IF d.offer = pk THEN Assign(d, e) ELSE d : d \in ds}

\* OfferDetail.objects.filter(id=detail_id, offer=instance).update(**detail_data):
\* one UPDATE statement, the model's save() is not called
queryset_update(ds, detail_id, pk, e) ==
    {IF d.id = detail_id /\ d.offer = pk THEN Assign(d, e) ELSE d : d \in ds}

\* the statement raises instead: a key that is no column of the table, or
\* an offer value that references no Offer row
update_raises(os, ds, detail_id, pk, e) ==
    \/ ~(DOMAIN e \subseteq DetailColumns)
    \/ /\ Has(e, "offer")
       /\ \E d \in ds : d.id = detail_id /\ d.offer = pk
       /\ ~OfferExists(os, e.offer)

\* "for detail_data in details_data": the entries of the raw request data
\* in order; the loop stops at the first statement that raises and the rows
\* already written stay written
RECURSIVE update_loop(_, _, _, _)
update_loop(os, ds, pk, entries) ==
    IF entries = <<>> THEN [details |-> ds, raised |-> FALSE]
    ELSE LET e == Head(entries)
             detail_id == IF Has(e, "id") THEN e.id ELSE 0
         IN  IF detail_id = 0 THEN update_loop(os, ds, pk, Tail(entries))
             ELSE IF update_raises(os, ds, detail_id, pk, e)
                  THEN [details |-> ds, raised |-> TRUE]
                  ELSE update_loop(os, queryset_update(ds, detail_id, pk, e), pk, Tail(entries))

\* validated_data['details']: OfferSingleDetailsSerializer keeps the
\* writable fields of each entry, so the read-only id is dropped
NestedValidated(entries) == [i \in Indices(entries) |-> ValidatedDetail(entries[i])]

\* the field checks of the nested OfferSingleDetailsSerializer (partial)
NestedValid(entries) ==
    \A i \in Indices(entries) :
        Has(entries[i], "offer_type") => entries[i].offer_type \in OFFER_TYPES

\* AllOfferDetailsSerializer._update_detail_instance
_update_detail_instance(ds, detail_instance, detail_data) ==
    save_detail(ds, Assign(detail_instance, detail_data))

\* AllOfferDetailsSerializer._update_details: existing are the detail rows
\* loaded with the instance
RECURSIVE _update_details(_, _, _)
_update_details(ds, existing, details_data) ==
    IF details_data = <<>> THEN ds
    ELSE LET detail_data == Head(details_data)
             detail_id == IF Has(detail_data, "id") THEN detail_data.id ELSE 0
             hit == {d \in existing : d.id = detail_id}
         IN  IF detail_id # 0 /\ hit # {}
             THEN _update_details(
                      _update_detail_instance(ds, CHOOSE d \in hit : TRUE, detail_data),
                      existing \ hit, Tail(details_data))
             ELSE _update_details(ds, existing, Tail(details_data))

ScalarFields == {"title", "description", "image", "user"}

\* an update that also saves every detail row it loaded with the instance,
\* after setting the fields of the entries that name it
serializer_update_saves_loaded(os, ds, instance, loaded, body) ==
    LET inst == Assign(instance, [k \in DOMAIN body \cap ScalarFields |-> body[k]])
        entries == InitialDetails(body)
        patched(d) ==
            IF \E i \in Indices(entries) : Has(entries[i], "id") /\ entries[i].id = d.id
            THEN Assign(d, entries[CHOOSE i \in Indices(entries) :
                                      Has(entries[i], "id") /\ entries[i].id = d.id])
            ELSE d
    IN  [offers |-> {o \in os : o.id # inst.id} \cup {inst},
         details |-> {x \in ds : \A d \in loaded : d.id # x.id}
                     \cup {patched(d) : d \in loaded}]

\* AllOfferDetailsSerializer.update: instance is the Offer row as loaded,
\* loaded its detail rows as loaded; instance.save() writes the whole row
serializer_update(os, ds, instance, loaded, body) ==
    LET inst == Assign(instance, [k \in DOMAIN body \cap ScalarFields |-> body[k]])
        details_data == NestedValidated(InitialDetails(body))
    IN  [offers |-> {o \in os : o.id # inst.id} \cup {inst},
         details |-> IF details_data # <<>>
                     THEN _update_details(ds, loaded, details_data)
                     ELSE ds]

\* OfferDetailsAPIView.update once the object is loaded and permitted
update(os, ds, instance, body) ==
    IF ~(NestedValid(InitialDetails(body)) /\ validate(body))
    THEN [status |-> 400, code |-> "invalid", offers |-> os, details |-> ds]
    ELSE IF ~Has(body, "details")
    THEN [status |-> 500, code |-> "TypeError", offers |-> os, details |-> ds]
    ELSE LET loop == update_loop(os, ds, instance.id, body.details)
         IN  IF loop.raised
             THEN [status |-> 500, code |-> "FieldError", offers |-> os,
                   details |-> loop.details]
             ELSE [status |-> 200, code |-> ""]
                  @@ serializer_update(os, loop.details, instance,
                                       DetailsOf(ds, instance.id), body)

UpdateOutcome(os, ds, method, caller, pk, body) ==
    IF ~has_permission(get_permissions(method), caller)
    THEN [status |-> 401, code |-> "not_authenticated", offers |-> os, details |-> ds]
    ELSE IF ~OfferExists(os, pk)
    THEN [status |-> 404, code |-> "not_found", offers |-> os, details |-> ds]
    ELSE IF ~check_object_permissions(get_permissions(method), caller, OfferById(os, pk))
    THEN [status |-> IF is_authenticated(caller) THEN 403 ELSE 401,
          code |-> IF is_authenticated(caller) THEN "permission_denied"
                   ELSE "not_authenticated",
          offers |-> os, details |-> ds]
    ELSE update(os, ds, OfferById(os, pk), body)

UpdateOffer(method, caller, pk, body) ==
    LET out == UpdateOutcome(offers, details, method, caller, pk, body)
    IN  /\ offers' = out.offers
        /\ details' = out.details
        /\ saved' = IF out.status = 200 THEN Touch(saved, pk) ELSE saved
        /\ UNCHANGED <<nextOfferId, nextDetailId, inflight, reviewVars, accountVars, orderVars>>
        /\ \E st \in (IF out.status = 401 THEN NotAuthenticatedStatuses ELSE {out.status}) :
               last' = Response("update", method, caller, pk, body, st, out.code)

(***************************************************************************)
(* DELETE /offers/<pk>/                                                    *)
(***************************************************************************)
\* a delete that removes the Offer row alone
delete_no_cascade(os, ds, pk) == [offers |-> {o \in os : o.id # pk}, details |-> ds]

\* offer.delete(): the details go with it (on_delete=CASCADE)
delete(os, ds, pk) ==
    [offers |-> {o \in os : o.id # pk}, details |-> {d \in ds : d.offer # pk}]

DeleteOutcome(os, ds, caller, pk) ==
    IF ~has_permission(get_permissions("DELETE"), caller)
    THEN [status |-> 401, code |-> "not_authenticated", offers |-> os, details |-> ds]
    ELSE IF ~OfferExists(os, pk)
    THEN [status |-> 404, code |-> "not_found", offers |-> os, details |-> ds]
    ELSE IF delete_check_raises(caller, OfferById(os, pk))
    THEN [status |-> 500, code |-> "RelatedObjectDoesNotExist", offers |-> os, details |-> ds]
    ELSE IF ~has_permission_to_delete(caller, OfferById(os, pk))
    THEN [status |-> 403, code |-> "permission_denied", offers |-> os, details |-> ds]
    ELSE [status |-> 204, code |-> ""] @@ delete(os, ds, pk)

DeleteOffer(caller, pk) ==
    LET out == DeleteOutcome(offers, details, caller, pk)
    IN  /\ offers' = out.offers
        /\ details' = out.details
        /\ saved' = IF out.status = 204 THEN Forget(saved, pk) ELSE saved
        /\ orders' = IF out.status = 204
                      THEN {o \in orders : o.offer_detail_id \in {d.id : d \in out.details}}
                      ELSE orders
        /\ UNCHANGED <<nextOfferId, nextDetailId, inflight, reviewVars, accountVars, nextOrderId>>
        /\ \E st \in (IF out.status = 401 THEN NotAuthenticatedStatuses ELSE {out.status}) :
               last' = Response("delete", "DELETE", caller, pk, <<>>, st, out.code)

(***************************************************************************)
(* GET /offers/ and GET /offers/<pk>/                                      *)
(***************************************************************************)
\* OfferSerializer.get_user_details reads obj.user.profile
get_user_details_raises(offer) == profile_type(offer.user) = "none"

\* aggregate(Min(...)) over the values of a column: None, here the empty
\* set, when there is no row, else the set of the one least value
Aggregate_Min(values) == {x \in values : \A y \in values : x <= y}

\* a min_price that reads the price of the offer's first detail
get_min_price_first_detail(ds, offer) ==
    {d.price : d \in {x \in DetailsOf(ds, offer.id) :
                         \A y \in DetailsOf(ds, offer.id) : x.id <= y.id}}

\* OfferSerializer.get_min_price: obj.details.aggregate(Min('price'))
get_min_price(ds, offer) == Aggregate_Min({d.price : d \in DetailsOf(ds, offer.id)})

\* OfferSerializer.get_min_delivery_time
get_min_delivery_time(ds, offer) ==
    Aggregate_Min({d.delivery_time_in_days : d \in DetailsOf(ds, offer.id)})

\* OfferSerializer.to_representation of a GET: the details are references
\* (OfferUrlSerializer), the two minima are computed from the table
OfferView(ds, offer) ==
    [id |-> offer.id,
     user |-> offer.user,
     title |-> offer.title,
     details |-> {d.id : d \in DetailsOf(ds, offer.id)},
     min_price |-> get_min_price(ds, offer),
     min_delivery_time |-> get_min_delivery_time(ds, offer)]

(***************************************************************************)
(* The queryset of GET /offers/: get_queryset, apply_ordering, the         *)
(* OrderingFilter backend of the view and the paginator.  A queryset is    *)
(* [rows, order_by]; query parameters are a function from the names the    *)
(* client sent.                                                            *)
(***************************************************************************)
NoParams == <<>>

\* a map that treats updated_at like the other two fields
ordering_map_straight(ordering) ==
    IF ordering \in {"-created_at", "created_at", "min_price", "-min_price",
                     "-updated_at", "updated_at"}
    THEN ordering ELSE "-updated_at"

\* OrderingHelperOffers.apply_ordering: ordering_map.get(ordering, "-updated_at")
ordering_map(ordering) ==
    CASE ordering = "-created_at" -> "-created_at"
      [] ordering = "created_at"  -> "created_at"
      [] ordering = "min_price"   -> "min_price"
      [] ordering = "-min_price"  -> "-min_price"
      [] ordering = "-updated_at" -> "updated_at"
      [] ordering = "updated_at"  -> "-updated_at"
      [] OTHER                    -> "-updated_at"

apply_ordering(queryset, ordering) ==
    [queryset EXCEPT !.order_by = ordering_map(ordering)]

\* term.lstrip('-') for the terms the clients of the model send
lstrip_minus(term) ==
    CASE term = "-created_at" -> "created_at"
      [] term = "-updated_at" -> "updated_at"
      [] term = "-min_price"  -> "min_price"
      [] term = "-id"         -> "id"
      [] OTHER                -> term

\* a filter that wants every detail within the time
every_detail_within(ds, offer, days) ==
    \A d \in DetailsOf(ds, offer.id) : d.delivery_time_in_days <= days

\* the filter on the owned details: at least one detail within the time
has_detail_within(ds, offer, days) ==
    \E d \in DetailsOf(ds, offer.id) : d.delivery_time_in_days <= days

\* OfferListAPIView.get_queryset: "if value" skips an absent or empty
\* parameter; min_price__gte compares the annotation, NULL matches nothing
get_queryset(os, ds, params) ==
    LET rows ==
            {o \in os :
                /\ (Has(params, "creator_id") /\ params.creator_id # "")
                      => o.user = params.creator_id
                /\ Has(params, "min_price")
                      => \E m \in get_min_price(ds, o) : m >= params.min_price
                /\ Has(params, "max_delivery_time")
                      => has_detail_within(ds, o, params.max_delivery_time)}
        ordering == IF Has(params, "ordering") THEN params.ordering ELSE "updated_at"
    IN  apply_ordering([rows |-> rows, order_by |-> ""], ordering)

\* fields OrderingFilter accepts when the view names no ordering_fields:
\* the serializer's fields that are not SerializerMethodFields
ValidOrderingFields ==
    {"id", "user", "title", "image", "description", "created_at", "updated_at"}

\* OrderingFilter.filter_queryset: a valid term of ?ordering= replaces the
\* order of the queryset, anything else leaves the queryset as it is
filter_queryset(queryset, params) ==
    IF /\ Has(params, "ordering")
       /\ params.ordering # ""
       /\ lstrip_minus(params.ordering) \in ValidOrderingFields
    THEN [queryset EXCEPT !.order_by = params.ordering]
    ELSE queryset

\* the value a row is sorted by: a set, empty for NULL
SortKey(ds, sv, offer, field) ==
    CASE field \in {"id", "created_at"} -> {offer.id}
      [] field = "updated_at" -> {i \in 1 .. Len(sv) : sv[i] = offer.id}
      [] field = "min_price"  -> get_min_price(ds, offer)

\* the rows of S one after the other, in every order
RECURSIVE Orderings(_)
Orderings(S) ==
    IF S = {} THEN {<<>>}
    ELSE UNION {{<<x>> \o f : f \in Orderings(S \ {x})} : x \in S}

\* the rows of S, which all have a key, sorted by it; rows with equal keys
\* come in any order
RECURSIVE Sorted(_, _, _, _, _)
Sorted(ds, sv, S, field, desc) ==
    LET key(o) == CHOOSE k \in SortKey(ds, sv, o, field) : TRUE
        first == {x \in S : \A y \in S :
                     IF desc THEN key(x) >= key(y) ELSE key(x) <= key(y)}
    IN  IF S = {} THEN {<<>>}
        ELSE UNION {{<<x>> \o f : f \in Sorted(ds, sv, S \ {x}, field, desc)} : x \in first}

\* ORDER BY: the rows in an order the database may return them in. Rows
\* with equal keys come in any order; NULL keys come all first or all last
Evaluate(ds, sv, queryset) ==
    LET field == lstrip_minus(queryset.order_by)
        desc == field # queryset.order_by
        nulls == {o \in queryset.rows : SortKey(ds, sv, o, field) = {}}
        sorted == Sorted(ds, sv, queryset.rows \ nulls, field, desc)
    IN  {n \o f : n \in Orderings(nulls), f \in sorted}
            \cup {f \o n : n \in Orderings(nulls), f \in sorted}

\* OfferPagination.page_size
page_size == 6

\* OfferPagination.max_page_size
max_page_size == 6

\* int(text) for the texts the clients of the model send: the set holding
\* the number, empty when int raises ValueError
int(text) ==
    CASE text = "-1" -> {-1}
      [] text = "0"  -> {0}
      [] text = "1"  -> {1}
      [] text = "2"  -> {2}
      [] text = "3"  -> {3}
      [] text = "6"  -> {6}
      [] text = "7"  -> {7}
      [] text = "10" -> {10}
      [] OTHER       -> {}

Minimum(a, b) == IF a < b THEN a ELSE b

\* a page size that ignores max_page_size
get_page_size_uncapped(params) ==
    IF Has(params, "page_size") /\ \E n \in int(params.page_size) : n > 0
    THEN CHOOSE n \in int(params.page_size) : TRUE
    ELSE page_size

\* PageNumberPagination.get_page_size: _positive_int(..., strict=True,
\* cutoff=max_page_size), and page_size when the parameter is absent or
\* raises ValueError
get_page_size(params) ==
    IF Has(params, "page_size") /\ \E n \in int(params.page_size) : n > 0
    THEN Minimum(CHOOSE n \in int(params.page_size) : TRUE, max_page_size)
    ELSE page_size

\* Paginator.num_pages with allow_empty_first_page and no orphans
num_pages(count, per_page) ==
    LET hits == IF count < 1 THEN 1 ELSE count
    IN  (hits + per_page - 1) \div per_page

\* PageNumberPagination.get_page_number and Paginator.validate_number: the
\* set holding the page number, empty when the page is invalid (NotFound)
get_page_number(params, count, per_page) ==
    IF ~Has(params, "page") \/ params.page = "" THEN {1}
    ELSE IF params.page = "last" THEN {num_pages(count, per_page)}
    ELSE {n \in int(params.page) : n >= 1 /\ n <= num_pages(count, per_page)}

\* PageNumberPagination.paginate_queryset and get_paginated_response: the
\* total count and the rows of the page asked for
paginate_queryset(rows, params) ==
    LET count == Len(rows)
        per_page == get_page_size(params)
        number == get_page_number(params, count, per_page)
        n == CHOOSE x \in number : TRUE
    IN  IF number = {} THEN [status |-> 404, count |-> 0, results |-> <<>>]
        ELSE [status |-> 200, count |-> count,
              results |-> SubSeq(rows, (n - 1) * per_page + 1,
                                 Minimum(n * per_page, count))]

\* the responses GET /offers/ may answer with
list(os, ds, sv, params) ==
    {[paginate_queryset(f, params) EXCEPT
         !.results = [i \in DOMAIN paginate_queryset(f, params).results |->
                         OfferView(ds, paginate_queryset(f, params).results[i])]] :
        f \in Evaluate(ds, sv, filter_queryset(get_queryset(os, ds, params), params))}

ListOutcome(os, caller) ==
    IF ~has_permission(list_get_permissions("GET"), caller)
    THEN [status |-> 401, code |-> "not_authenticated"]
    ELSE IF \E o \in os : get_user_details_raises(o)
    THEN [status |-> 500, code |-> "RelatedObjectDoesNotExist"]
    ELSE [status |-> 200, code |-> ""]

RetrieveOutcome(os, caller, pk) ==
    IF ~has_permission(get_permissions("GET"), caller)
    THEN [status |-> 401, code |-> "not_authenticated"]
    ELSE IF ~OfferExists(os, pk)
    THEN [status |-> 404, code |-> "not_found"]
    ELSE IF get_user_details_raises(OfferById(os, pk))
    THEN [status |-> 500, code |-> "RelatedObjectDoesNotExist"]
    ELSE [status |-> 200, code |-> ""]

\* the response carries the page ("results") and, for reference, the order
\* get_queryset asked for before the filter backends ran
ListOffers(caller, params) ==
    LET out == ListOutcome(offers, caller)
    IN  /\ UNCHANGED <<offers, details, nextOfferId, nextDetailId, saved, inflight,
                       reviewVars, accountVars, orderVars>>
        /\ IF out.status = 200
           THEN \E page \in list(offers, details, saved, params) :
                    last' = Response("list", "GET", caller, 0, params, page.status,
                                     IF page.status = 404 THEN "not_found" ELSE "")
                            @@ [results |-> page.results, count |-> page.count]
           ELSE \E st \in (IF out.status = 401 THEN NotAuthenticatedStatuses
                           ELSE {out.status}) :
                    last' = Response("list", "GET", caller, 0, params, st, out.code)
                            @@ [results |-> <<>>, count |-> 0]

RetrieveOffer(caller, pk) ==
    LET out == RetrieveOutcome(offers, caller, pk)
    IN  /\ UNCHANGED <<offers, details, nextOfferId, nextDetailId, saved, inflight,
                       reviewVars, accountVars, orderVars>>
        /\ \E st \in (IF out.status = 401 THEN NotAuthenticatedStatuses ELSE {out.status}) :
               last' = Response("retrieve", "GET", caller, pk, <<>>, st, out.code)
                       @@ [results |-> IF out.status = 200
                                       THEN <<OfferView(details, OfferById(offers, pk))>>
                                       ELSE <<>>]

Next ==
    \/ \E r \in CreateRequests : CreateOffer(r.caller, r.body)
    \/ \E r \in UpdateRequests : UpdateOffer(r.method, r.caller, r.pk, r.body)
    \/ \E caller \in Callers, pk \in OfferIds : DeleteOffer(caller, pk)
    \/ \E caller \in Callers : ListOffers(caller, NoParams)
    \/ \E caller \in Callers, pk \in OfferIds : RetrieveOffer(caller, pk)

Spec == Init /\ [][Next]_vars

\* the offer lifecycle without updates: create, delete and the two reads
NextOffers ==
    \/ \E r \in CreateRequests : CreateOffer(r.caller, r.body)
    \/ \E caller \in Callers, pk \in OfferIds : DeleteOffer(caller, pk)
    \/ \E caller \in Callers : ListOffers(caller, NoParams)
    \/ \E caller \in Callers, pk \in OfferIds : RetrieveOffer(caller, pk)

SpecOffers == Init /\ [][NextOffers]_vars

\* the owner's requests on the details of an offer: offers created with
\* valid bodies, and every PATCH whose body holds only a details list with
\* no entry that names another offer
OwnerCreateRequests ==
    {r \in CreateRequests : r.caller = "alice" /\ CreateFieldsValid(r.body) /\ validate(r.body)}

OwnerUpdateRequests ==
    {r \in UpdateRequests :
        /\ r.caller = "alice" /\ r.method = "PATCH" /\ DOMAIN r.body = {"details"}
        /\ \A i \in Indices(r.body.details) : ~Has(r.body.details[i], "offer")}

NextUpdates ==
    \/ \E r \in OwnerCreateRequests : CreateOffer(r.caller, r.body)
    \/ \E r \in OwnerUpdateRequests : UpdateOffer(r.method, r.caller, r.pk, r.body)

SpecUpdates == Init /\ [][NextUpdates]_vars

\* offers with their details, details moved between offers by the raw
\* "offer" key of an update entry, and deletes by the owner, by a staff
\* user and by a third user
MoveRequests ==
    {r \in UpdateRequests :
        /\ r.caller = "alice" /\ r.method = "PATCH" /\ DOMAIN r.body = {"details"}
        /\ Len(r.body.details) = 1
        /\ Has(r.body.details[1], "offer")}

NextCascade ==
    \/ \E r \in OwnerCreateRequests :
          InitialDetails(r.body) # <<>> /\ CreateOffer(r.caller, r.body)
    \/ \E r \in MoveRequests : UpdateOffer(r.method, r.caller, r.pk, r.body)
    \/ \E caller \in {"alice", "bob", "carol"}, pk \in OfferIds : DeleteOffer(caller, pk)

SpecCascade == Init /\ [][NextCascade]_vars

(***************************************************************************)
(* Reading the offers: offers of two business users, details changed by    *)
(* their owner, and the list with its query parameters.                    *)
(***************************************************************************)
\* the six tokens of the vocabulary, tokens that are no field, the empty
\* token, and tokens that name a field of the serializer
OrderingTokens ==
    {"created_at", "-created_at", "min_price", "-min_price", "updated_at", "-updated_at",
     "bogus", "", "id", "-id"}

ListParams ==
    {NoParams}
    \cup {[ordering |-> t] : t \in OrderingTokens}
    \cup {[creator_id |-> c] : c \in {"alice", "erin", ""}}
    \cup {[min_price |-> 10 * PriceUnit], [max_delivery_time |-> 5], [max_delivery_time |-> 2]}
    \cup {[creator_id |-> "alice", min_price |-> 10 * PriceUnit, max_delivery_time |-> 5],
          [max_delivery_time |-> 5, ordering |-> "created_at"],
          [min_price |-> 10 * PriceUnit, ordering |-> "-min_price"]}

ReadCreateRequests ==
    {[caller |-> "alice", body |-> [title |-> "Logo", description |-> "text", details |-> ds]] :
        ds \in {<<>>, <<Basic>>, <<Basic, Bare>>}}
    \cup {[caller |-> "erin",
           body |-> [title |-> "Logo", description |-> "text", details |-> <<Basic>>]]}

ReadUpdateRequests ==
    {[method |-> "PATCH", caller |-> "alice", pk |-> pk, body |-> [details |-> <<ProOf(i)>>]] :
        pk \in OfferIds, i \in DetailIds}

NextReads ==
    \/ \E r \in ReadCreateRequests : CreateOffer(r.caller, r.body)
    \/ \E r \in ReadUpdateRequests : UpdateOffer(r.method, r.caller, r.pk, r.body)
    \/ \E params \in ListParams : ListOffers(Anonymous, params)
    \/ \E pk \in OfferIds : RetrieveOffer("alice", pk)

SpecReads == Init /\ [][NextReads]_vars

(***************************************************************************)
(* The list over a table of up to MaxListed offers, page by page.  The     *)
(* table is the one n creates leave: offers 1 .. n, owned in turn by alice *)
(* and erin, saved in the order of their ids, the first with one detail.   *)
(***************************************************************************)
MaxListed == 7

ListedOffers(n) ==
    {NewOffer(i, IF i % 2 = 1 THEN "alice" ELSE "erin",
              [title |-> "Logo", description |-> "text"]) : i \in 1 .. n}

InitListed ==
    \E n \in 0 .. MaxListed :
        /\ offers = ListedOffers(n)
        /\ details = IF n = 0 THEN {} ELSE {NewDetail(1, 1, Basic)}
        /\ nextOfferId = n + 1
        /\ nextDetailId = IF n = 0 THEN 1 ELSE 2
        /\ saved = [i \in 1 .. n |-> i]
        /\ last = NoRequest
        /\ inflight = [c \in Clients |-> Idle]
        /\ reviews = {}
        /\ nextReviewId = 1
        /\ orders = {}
        /\ nextOrderId = 1
        /\ users = {}
        /\ profiles = {}

PageParams ==
    {a @@ b @@ c :
        a \in {NoParams} \cup {[page_size |-> t] : t \in {"0", "2", "6", "7", "10", "abc"}},
        b \in {NoParams} \cup {[page |-> t] : t \in {"1", "2", "3", "last", "0"}},
        c \in {NoParams, [creator_id |-> "alice"], [max_delivery_time |-> 5]}}

NextListed == \E params \in PageParams : ListOffers(Anonymous, params)

SpecListed == InitListed /\ [][NextListed]_vars

(***************************************************************************)
(* The same handlers statement by statement.  Neither handler opens a      *)
(* transaction, so every statement commits on its own and the statements   *)
(* of other requests may run between two of them.  A client connection     *)
(* carries one request at a time.                                          *)
(***************************************************************************)
Finish(c) == [inflight EXCEPT ![c] = Idle]

\* number of details the creates in flight are still going to insert
PendingDetails ==
    LET n(c) == IF inflight[c].pc = "created" THEN Len(InitialDetails(inflight[c].body))
                ELSE 0
    IN  n(1) + n(2)

\* POST /offers/ up to and including Offer.objects.create: a request that is
\* refused or invalid is answered here, without a statement
CreateBegin(c, caller, body) ==
    LET out == CreateOutcome(offers, details, nextOfferId, nextDetailId, caller, body)
        n == Len(InitialDetails(body))
    IN  /\ inflight[c].pc = "idle"
        /\ UNCHANGED <<details, nextDetailId, reviewVars, accountVars, orderVars>>
        /\ IF out.status = 201
           THEN /\ nextOfferId <= MaxOffers
                /\ nextDetailId + PendingDetails + n - 1 <= MaxDetails
                /\ offers' = offers \cup {NewOffer(nextOfferId, caller, body)}
                /\ nextOfferId' = nextOfferId + 1
                /\ saved' = Touch(saved, nextOfferId)
                /\ inflight' = [inflight EXCEPT ![c] =
                                   [pc |-> "created", op |-> "create", caller |-> caller,
                                    body |-> body, offer |-> nextOfferId]]
                /\ UNCHANGED last
           ELSE /\ UNCHANGED <<offers, nextOfferId, saved, inflight>>
                /\ \E st \in (IF out.status = 401 THEN NotAuthenticatedStatuses
                              ELSE {out.status}) :
                       last' = Response("create", "POST", caller, 0, body, st, out.code)

\* OfferDetail.objects.bulk_create(...) and the response; the insert fails
\* on the foreign key when the offer has been deleted in between
CreateFinish(c) ==
    LET r == inflight[c]
        n == Len(InitialDetails(r.body))
    IN  /\ r.pc = "created"
        /\ inflight' = Finish(c)
        /\ UNCHANGED <<offers, nextOfferId, saved, reviewVars, accountVars, orderVars>>
        /\ IF OfferExists(offers, r.offer)
           THEN /\ details' = bulk_create(details, nextDetailId, r.offer,
                                          validated_details(r.body))
                /\ nextDetailId' = nextDetailId + n
                /\ last' = Response("create", "POST", r.caller, r.offer, r.body, 201, "")
           ELSE /\ UNCHANGED <<details, nextDetailId>>
                /\ last' = Response("create", "POST", r.caller, r.offer, r.body, 500,
                                    "IntegrityError")

\* the identities a patch names
NamedIds(body) ==
    {InitialDetails(body)[i].id :
        i \in {j \in Indices(InitialDetails(body)) : Has(InitialDetails(body)[j], "id")}}

Done(r, status, code) ==
    [pc |-> "done", op |-> "update", method |-> r.method, caller |-> r.caller,
     pk |-> r.pk, body |-> r.body, status |-> status, code |-> code,
     overlapped |-> r.overlapped]

\* the request of client c has run while another update was in flight
Overlap(fl, c) ==
    [x \in Clients |->
        IF x # c /\ fl[x].pc = "loaded" THEN [fl[x] EXCEPT !.overlapped = TRUE] ELSE fl[x]]

\* PATCH or PUT /offers/<pk>/ up to the loop: permission checks, get_object
\* (the offer with its details prefetched) and is_valid; a request that
\* fails one of them is answered here
UpdateLoad(c, method, caller, pk, body) ==
    LET out == UpdateOutcome(offers, details, method, caller, pk, body)
        r == [method |-> method, caller |-> caller, pk |-> pk, body |-> body,
              overlapped |-> \E x \in Clients \ {c} : inflight[x].pc = "loaded"]
        early == out.status \in {400, 401, 403, 404} \/ out.code = "TypeError"
    IN  /\ inflight[c].pc = "idle"
        /\ UNCHANGED <<offers, details, nextOfferId, nextDetailId, saved,
                       reviewVars, accountVars, orderVars>>
        /\ IF early
           THEN /\ inflight' = [inflight EXCEPT ![c] = Done(r, out.status, out.code)]
                /\ \E st \in (IF out.status = 401 THEN NotAuthenticatedStatuses
                              ELSE {out.status}) :
                       last' = Response("update", method, caller, pk, body, st, out.code)
           ELSE /\ inflight' = [Overlap(inflight, c) EXCEPT ![c] =
                                   [pc |-> "loaded", op |-> "update"] @@ r @@
                                   [instance |-> OfferById(offers, pk),
                                    loaded |-> DetailsOf(details, pk),
                                    entries |-> body.details]]
                /\ UNCHANGED last

\* one turn of "for detail_data in details_data": an entry with an id is one
\* UPDATE statement, which may raise
UpdateWrite(c) ==
    LET r == inflight[c]
        e == Head(r.entries)
        detail_id == IF Has(e, "id") THEN e.id ELSE 0
    IN  /\ r.pc = "loaded"
        /\ r.entries # <<>>
        /\ UNCHANGED <<offers, nextOfferId, nextDetailId, saved, reviewVars, accountVars,
                       orderVars>>
        /\ IF detail_id # 0 /\ update_raises(offers, details, detail_id, r.pk, e)
           THEN /\ inflight' = [inflight EXCEPT ![c] = Done(r, 500, "FieldError")]
                /\ last' = Response("update", r.method, r.caller, r.pk, r.body, 500,
                                    "FieldError")
                /\ UNCHANGED details
           ELSE /\ inflight' = [inflight EXCEPT ![c].entries = Tail(r.entries)]
                /\ details' = IF detail_id = 0 THEN details
                              ELSE queryset_update(details, detail_id, r.pk, e)
                /\ UNCHANGED last

\* serializer.save(): the instance as it was loaded, with the scalar fields
\* of the patch, is written back, and the response is sent
UpdateSave(c) ==
    LET r == inflight[c]
        out == serializer_update(offers, details, r.instance, r.loaded, r.body)
    IN  /\ r.pc = "loaded"
        /\ r.entries = <<>>
        /\ offers' = out.offers
        /\ details' = out.details
        /\ saved' = Touch(saved, r.pk)
        /\ inflight' = [inflight EXCEPT ![c] = Done(r, 200, "")]
        /\ last' = Response("update", r.method, r.caller, r.pk, r.body, 200, "")
        /\ UNCHANGED <<nextOfferId, nextDetailId, reviewVars, accountVars, orderVars>>

\* creates statement by statement, with the reads and the owner's delete
StepCreateRequests ==
    {[caller |-> "alice", body |-> [title |-> "Logo", description |-> "text", details |-> ds]] :
        ds \in {<<Basic>>, <<Basic, Bare>>, <<BadPrice>>}}

NextCreateSteps ==
    \/ \E c \in Clients, r \in StepCreateRequests : CreateBegin(c, r.caller, r.body)
    \/ \E c \in Clients : CreateFinish(c)
    \/ ListOffers(Anonymous, NoParams)
    \/ \E pk \in OfferIds : RetrieveOffer("alice", pk)
    \/ \E pk \in OfferIds : DeleteOffer("alice", pk)

SpecCreateSteps == Init /\ [][NextCreateSteps]_vars

\* two updates, one on each connection, statement by statement, of offers
\* with two details
StepUpdateRequests ==
    {[method |-> "PATCH", caller |-> "alice", pk |-> pk, body |-> b] :
        pk \in OfferIds,
        b \in {[details |-> <<ProOf(i)>>] : i \in DetailIds}
              \cup {[title |-> "New", details |-> <<ProOf(1)>>]}}

NextUpdateSteps ==
    \/ CreateOffer("alice", [title |-> "Logo", description |-> "text",
                             details |-> <<Basic, Bare>>])
    \/ \E c \in Clients, r \in StepUpdateRequests :
          UpdateLoad(c, r.method, r.caller, r.pk, r.body)
    \/ \E c \in Clients : UpdateWrite(c)
    \/ \E c \in Clients : UpdateSave(c)

SpecUpdateSteps == Init /\ [][NextUpdateSteps]_vars

\* two updates of the same offer, one on each connection, statement by
\* statement: one sends a new title, the other a new description, with an
\* empty details list, without one, or with one detail entry
ScalarStepBodies ==
    {[title |-> "New", details |-> <<>>],
     [description |-> "new text", details |-> <<>>],
     [title |-> "New"],
     [description |-> "new text"],
     [description |-> "new text", details |-> <<ProOf(1)>>]}

NextScalarSteps ==
    \/ CreateOffer("alice", [title |-> "Logo", description |-> "text", details |-> <<Basic>>])
    \/ \E c \in Clients, pk \in OfferIds, b \in ScalarStepBodies :
          UpdateLoad(c, "PATCH", "alice", pk, b)
    \/ \E c \in Clients : UpdateWrite(c)
    \/ \E c \in Clients : UpdateSave(c)

SpecScalarSteps == Init /\ [][NextScalarSteps]_vars

\* offers made by two business users, updates by every caller whose body
\* carries the writable field "user" of AllOfferDetailsSerializer or a new
\* title, and deletes
OwnerBodies ==
    {[user |-> "erin", details |-> <<>>],
     [user |-> "bob", title |-> "New", details |-> <<>>],
     [title |-> "New", details |-> <<>>]}

NextOwnership ==
    \/ \E caller \in Callers :
          CreateOffer(caller, [title |-> "Logo", description |-> "text", details |-> <<Basic>>])
    \/ \E m \in Methods, caller \in Callers, pk \in OfferIds, b \in OwnerBodies :
          UpdateOffer(m, caller, pk, b)
    \/ \E caller \in Callers, pk \in OfferIds : DeleteOffer(caller, pk)

SpecOwnership == Init /\ [][NextOwnership]_vars

(***************************************************************************)
(* Reviews: POST /reviews/ and GET, PATCH, PUT, DELETE /reviews/<pk>/.     *)
(* A Review row is [id, reviewer, business_user, rating, description];     *)
(* the table has no unique constraint.                                     *)
(***************************************************************************)
MaxReviews == 2

ReviewIds == 1 .. MaxReviews

ReviewById(rs, pk) == CHOOSE r \in rs : r.id = pk

ReviewExists(rs, pk) == \E r \in rs : r.id = pk

\* the writable fields of ReviewSerializer; all three are required
ReviewWritable == {"business_user", "rating", "description"}

\* field validation of ReviewSerializer: required fields unless partial,
\* and business_user must be the key of a User
ReviewFieldErrors(body, partial) ==
    {k \in ReviewWritable : ~partial /\ ~Has(body, k)}
        \cup {k \in {"business_user"} \cap DOMAIN body : body[k] \notin Users}

\* ReviewSerializer.validate: TRUE when it returns the data
ReviewSerializer_validate(rs, user, body, instance_is_none) ==
    /\ ~(Has(body, "reviewer") /\ body.reviewer # user)
    /\ ~(/\ instance_is_none
         /\ Has(body, "business_user")
         /\ \E r \in rs : r.reviewer = user /\ r.business_user = body.business_user)

\* ReviewListAPIView POST: IsAuthenticated, is_valid, perform_create
CreateReviewOutcome(rs, rid, caller, body) ==
    IF ~is_authenticated(caller) THEN [status |-> 401, reviews |-> rs]
    ELSE IF ReviewFieldErrors(body, FALSE) # {} THEN [status |-> 400, reviews |-> rs]
    ELSE IF ~ReviewSerializer_validate(rs, caller, body, TRUE)
         THEN [status |-> 400, reviews |-> rs]
    ELSE IF profile_type(caller) = "none" THEN [status |-> 500, reviews |-> rs]
    ELSE IF profile_type(caller) # "customer" THEN [status |-> 403, reviews |-> rs]
    ELSE [status |-> 201,
          reviews |-> rs \cup {[id |-> rid, reviewer |-> caller,
                                business_user |-> body.business_user,
                                rating |-> body.rating,
                                description |-> body.description]}]

CreateReview(caller, body) ==
    LET out == CreateReviewOutcome(reviews, nextReviewId, caller, body)
    IN  /\ out.status = 201 => nextReviewId <= MaxReviews
        /\ reviews' = out.reviews
        /\ nextReviewId' = IF out.status = 201 THEN nextReviewId + 1 ELSE nextReviewId
        /\ \E st \in (IF out.status = 401 THEN NotAuthenticatedStatuses ELSE {out.status}) :
               last' = Response("review_create", "POST", caller, 0, body, st, "")
        /\ UNCHANGED <<offers, details, nextOfferId, nextDetailId, saved, inflight,
                       orderVars, accountVars>>

\* ReviewDetailsAPIView.update and perform_update: IsAuthenticated,
\* get_object, is_valid on the instance, reviewer or staff, save
UpdateReviewOutcome(rs, method, caller, pk, body) ==
    IF ~is_authenticated(caller) THEN [status |-> 401, reviews |-> rs]
    ELSE IF ~ReviewExists(rs, pk) THEN [status |-> 404, reviews |-> rs]
    ELSE IF ReviewFieldErrors(body, method = "PATCH") # {}
         THEN [status |-> 400, reviews |-> rs]
    ELSE IF ~ReviewSerializer_validate(rs, caller, body, FALSE)
         THEN [status |-> 400, reviews |-> rs]
    ELSE IF ReviewById(rs, pk).reviewer # caller /\ ~is_staff(caller)
         THEN [status |-> 403, reviews |-> rs]
    ELSE [status |-> 200,
          reviews |-> (rs \ {ReviewById(rs, pk)})
                      \cup {Assign(ReviewById(rs, pk),
                                   [k \in DOMAIN body \cap ReviewWritable |-> body[k]])}]

UpdateReview(method, caller, pk, body) ==
    LET out == UpdateReviewOutcome(reviews, method, caller, pk, body)
    IN  /\ reviews' = out.reviews
        /\ \E st \in (IF out.status = 401 THEN NotAuthenticatedStatuses ELSE {out.status}) :
               last' = Response("review_update", method, caller, pk, body, st, "")
        /\ UNCHANGED <<offers, details, nextOfferId, nextDetailId, saved, inflight,
                       nextReviewId, orderVars, accountVars>>

\* ReviewDetailsAPIView DELETE and perform_destroy
DeleteReviewOutcome(rs, caller, pk) ==
    IF ~is_authenticated(caller) THEN [status |-> 401, reviews |-> rs]
    ELSE IF ~ReviewExists(rs, pk) THEN [status |-> 404, reviews |-> rs]
    ELSE IF ReviewById(rs, pk).reviewer # caller /\ ~is_staff(caller)
         THEN [status |-> 403, reviews |-> rs]
    ELSE [status |-> 204, reviews |-> rs \ {ReviewById(rs, pk)}]

DeleteReview(caller, pk) ==
    LET out == DeleteReviewOutcome(reviews, caller, pk)
    IN  /\ reviews' = out.reviews
        /\ \E st \in (IF out.status = 401 THEN NotAuthenticatedStatuses ELSE {out.status}) :
               last' = Response("review_delete", "DELETE", caller, pk, <<>>, st, "")
        /\ UNCHANGED <<offers, details, nextOfferId, nextDetailId, saved, inflight,
                       nextReviewId, orderVars, accountVars>>

ReviewOf(business) == [business_user |-> business, rating |-> 5, description |-> "good"]

ReviewBodies ==
    {ReviewOf(b) : b \in {"alice", "erin", "ghost"}}
        \cup {WithKey(ReviewOf("alice"), "reviewer", "carol"),
              [rating |-> 4], [business_user |-> "alice"]}

ReviewCallers == {"bob", "carol", "alice", "dave", Anonymous}

NextReviews ==
    \/ \E caller \in ReviewCallers, body \in ReviewBodies : CreateReview(caller, body)
    \/ \E method \in {"PATCH", "PUT"}, caller \in ReviewCallers, pk \in ReviewIds,
          body \in ReviewBodies : UpdateReview(method, caller, pk, body)
    \/ \E caller \in ReviewCallers, pk \in ReviewIds : DeleteReview(caller, pk)

SpecReviews == Init /\ [][NextReviews]_vars

(***************************************************************************)
(* Orders: POST /orders/ and PATCH, DELETE /orders/<pk>/.  An Order row    *)
(* is [id, status, offer_detail_id, customer_user, business_user, title,   *)
(* price, offer_type, revisions, delivery_time_in_days, features].         *)
(***************************************************************************)
MaxOrders == 2

OrderIds == 1 .. MaxOrders

\* Order.order_status
order_status == {"in_progress", "completed", "cancelled"}

DefaultStatus == "in_progress"

OrderById(rs, pk) == CHOOSE o \in rs : o.id = pk

OrderExists(rs, pk) == \E o \in rs : o.id = pk

DetailById(ds, pk) == CHOOSE d \in ds : d.id = pk

\* OrderListAPIView.is_customer, for an authenticated user with a profile
is_customer(user) == is_authenticated(user) /\ profile_type(user) = "customer"

\* keyword arguments OrderPostSerializer.create passes by name next to
\* **validated_data
CreateKeywords == {"customer_user", "title", "price", "offer_type"}

\* field validation of OrderPostSerializer
OrderFieldErrors(ds, body) ==
    {k \in {"offer_detail_id"} : ~Has(body, k)}
        \cup {k \in {"offer_detail_id"} \cap DOMAIN body :
                  \A d \in ds : d.id # body[k]}
        \cup {k \in {"status"} \cap DOMAIN body : body[k] \notin order_status}
        \cup {k \in {"business_user", "customer_user"} \cap DOMAIN body :
                  body[k] \notin Users}

\* Order.objects.create(customer_user=request.user, title=..., price=...,
\* offer_type=..., **validated_data) followed by Order.save
NewOrder(os, ds, id, user, body) ==
    LET offer_detail == DetailById(ds, body.offer_detail_id)
    IN  [id |-> id,
         status |-> IF Has(body, "status") THEN body.status ELSE DefaultStatus,
         offer_detail_id |-> offer_detail.id,
         customer_user |-> user,
         business_user |-> IF Has(body, "business_user") THEN body.business_user
                           ELSE OfferById(os, offer_detail.offer).user,
         title |-> offer_detail.title,
         price |-> Round2(offer_detail.price),
         offer_type |-> offer_detail.offer_type,
         revisions |-> IF Has(body, "revisions") THEN body.revisions
                       ELSE offer_detail.revisions,
         delivery_time_in_days |->
             IF Has(body, "delivery_time_in_days") THEN body.delivery_time_in_days
             ELSE offer_detail.delivery_time_in_days,
         features |-> offer_detail.features]

\* OrderListAPIView.post
CreateOrderOutcome(os, ds, rs, id, caller, body) ==
    IF ~is_authenticated(caller) THEN [status |-> 401, code |-> "", orders |-> rs]
    ELSE IF profile_type(caller) = "none"
         THEN [status |-> 500, code |-> "RelatedObjectDoesNotExist", orders |-> rs]
    ELSE IF ~is_customer(caller) THEN [status |-> 403, code |-> "", orders |-> rs]
    ELSE IF OrderFieldErrors(ds, body) # {} THEN [status |-> 400, code |-> "", orders |-> rs]
    ELSE IF DOMAIN body \cap CreateKeywords # {}
         THEN [status |-> 500, code |-> "TypeError", orders |-> rs]
    ELSE [status |-> 201, code |-> "",
          orders |-> rs \cup {NewOrder(os, ds, id, caller, body)}]

CreateOrder(caller, body) ==
    LET out == CreateOrderOutcome(offers, details, orders, nextOrderId, caller, body)
    IN  /\ out.status = 201 => nextOrderId <= MaxOrders
        /\ orders' = out.orders
        /\ nextOrderId' = IF out.status = 201 THEN nextOrderId + 1 ELSE nextOrderId
        /\ \E st \in (IF out.status = 401 THEN NotAuthenticatedStatuses ELSE {out.status}) :
               last' = Response("order_create", "POST", caller, 0, body, st, out.code)
        /\ UNCHANGED <<offers, details, nextOfferId, nextDetailId, saved, inflight,
                       reviewVars, accountVars>>

\* a patch that does not look at who the caller is
patch_by_anyone(rs, caller, pk, body) ==
    IF ~is_authenticated(caller) THEN [status |-> 401, orders |-> rs]
    ELSE IF ~OrderExists(rs, pk) THEN [status |-> 404, orders |-> rs]
    ELSE IF ~Has(body, "status") \/ body.status \notin order_status
         THEN [status |-> 400, orders |-> rs]
    ELSE [status |-> 200,
          orders |-> (rs \ {OrderById(rs, pk)})
                     \cup {[OrderById(rs, pk) EXCEPT !.status = body.status]}]

\* OrderSingleAPIView.patch
patch(rs, caller, pk, body) ==
    IF ~is_authenticated(caller) THEN [status |-> 401, orders |-> rs]
    ELSE IF ~OrderExists(rs, pk) THEN [status |-> 404, orders |-> rs]
    ELSE IF OrderById(rs, pk).business_user # caller THEN [status |-> 403, orders |-> rs]
    ELSE IF ~Has(body, "status") \/ body.status \notin order_status
         THEN [status |-> 400, orders |-> rs]
    ELSE [status |-> 200,
          orders |-> (rs \ {OrderById(rs, pk)})
                     \cup {[OrderById(rs, pk) EXCEPT !.status = body.status]}]

PatchOrder(caller, pk, body) ==
    LET out == patch(orders, caller, pk, body)
    IN  /\ orders' = out.orders
        /\ \E st \in (IF out.status = 401 THEN NotAuthenticatedStatuses ELSE {out.status}) :
               last' = Response("order_patch", "PATCH", caller, pk, body, st, "")
        /\ UNCHANGED <<offers, details, nextOfferId, nextDetailId, saved, inflight,
                       reviewVars, accountVars, nextOrderId>>

\* OrderSingleAPIView.delete
DeleteOrderOutcome(rs, caller, pk) ==
    IF ~is_authenticated(caller) THEN [status |-> 401, orders |-> rs]
    ELSE IF ~OrderExists(rs, pk) THEN [status |-> 404, orders |-> rs]
    ELSE IF ~is_staff(caller) THEN [status |-> 403, orders |-> rs]
    ELSE [status |-> 204, orders |-> rs \ {OrderById(rs, pk)}]

DeleteOrder(caller, pk) ==
    LET out == DeleteOrderOutcome(orders, caller, pk)
    IN  /\ orders' = out.orders
        /\ \E st \in (IF out.status = 401 THEN NotAuthenticatedStatuses ELSE {out.status}) :
               last' = Response("order_delete", "DELETE", caller, pk, <<>>, st, "")
        /\ UNCHANGED <<offers, details, nextOfferId, nextDetailId, saved, inflight,
                       reviewVars, accountVars, nextOrderId>>

\* OrderListSerializer: the row, with features read from the offer detail
\* (get_features)
OrderView(ds, order) ==
    [order EXCEPT !.features = DetailById(ds, order.offer_detail_id).features]

\* OrderSingleAPIView.get: Order.objects.get raises for an unknown pk
RetrieveOrder(caller, pk) ==
    LET st == IF ~is_authenticated(caller) THEN 401
              ELSE IF ~OrderExists(orders, pk) THEN 500
              ELSE 200
    IN  /\ UNCHANGED <<offers, details, nextOfferId, nextDetailId, saved, inflight,
                       reviewVars, accountVars, orderVars>>
        /\ \E answer \in (IF st = 401 THEN NotAuthenticatedStatuses ELSE {st}) :
               last' = Response("order_retrieve", "GET", caller, pk, <<>>, answer,
                                IF st = 500 THEN "DoesNotExist" ELSE "")
                       @@ [results |-> IF st = 200
                                       THEN <<OrderView(details, OrderById(orders, pk))>>
                                       ELSE <<>>]

OrderBodies ==
    {[offer_detail_id |-> d] : d \in DetailIds}
        \cup {[offer_detail_id |-> 1, status |-> "completed"],
              [offer_detail_id |-> 1, status |-> "done"],
              [offer_detail_id |-> 1, business_user |-> "erin"],
              [offer_detail_id |-> 1, title |-> "Mine"],
              [offer_detail_id |-> 1, customer_user |-> "carol"],
              [offer_detail_id |-> 1, features |-> <<"rush">>],
              [offer_detail_id |-> 1, revisions |-> 9],
              [status |-> "completed"]}

PatchBodies == {[status |-> st] : st \in order_status \cup {"done"}} \cup {<<>>}

OrderCallers == {"bob", "alice", "erin", "dave", Anonymous}

NextOrders ==
    \/ CreateOffer("alice", [title |-> "Logo", description |-> "text",
                             details |-> <<Basic>>])
    \/ \E caller \in OrderCallers, body \in OrderBodies : CreateOrder(caller, body)
    \/ \E caller \in OrderCallers, pk \in OrderIds, body \in PatchBodies :
          PatchOrder(caller, pk, body)
    \/ \E caller \in OrderCallers, pk \in OrderIds : DeleteOrder(caller, pk)
    \/ \E pk \in OfferIds : DeleteOffer("alice", pk)

SpecOrders == Init /\ [][NextOrders]_vars

\* orders on alice's offers, updates of the ordered details by alice, and
\* reads of the orders
NextOrderReads ==
    \/ CreateOffer("alice", [title |-> "Logo", description |-> "text",
                             details |-> <<Basic>>])
    \/ \E pk \in OfferIds, i \in DetailIds :
          UpdateOffer("PATCH", "alice", pk, [details |-> <<ProOf(i)>>])
    \/ \E d \in DetailIds : CreateOrder("bob", [offer_detail_id |-> d])
    \/ \E caller \in {"bob", "alice", Anonymous}, pk \in OrderIds :
          RetrieveOrder(caller, pk)

SpecOrderReads == Init /\ [][NextOrderReads]_vars

\* orders of one customer on alice's offers, some of them attached to erin,
\* and the patches of the two business users, the customer and an
\* unauthenticated caller
PatchCallers == {"alice", "erin", "bob", Anonymous}

NextOrderPatch ==
    \/ CreateOffer("alice", [title |-> "Logo", description |-> "text",
                             details |-> <<Basic>>])
    \/ \E body \in {[offer_detail_id |-> 1],
                    [offer_detail_id |-> 1, business_user |-> "erin"]} :
          CreateOrder("bob", body)
    \/ \E caller \in PatchCallers, pk \in OrderIds, body \in PatchBodies :
          PatchOrder(caller, pk, body)

SpecOrderPatch == Init /\ [][NextOrderPatch]_vars

(***************************************************************************)
(* Accounts: POST /registration/ and PATCH /profile/<id>/.  A User row is  *)
(* [username, email, first_name, last_name], a Profile row [user, email,   *)
(* type, first_name, last_name, location]; a user is known by its          *)
(* username, which is unique.                                              *)
(***************************************************************************)
UserExists(us, name) == \E u \in us : u.username = name

UserByName(us, name) == CHOOSE u \in us : u.username = name

ProfileExists(ps, name) == \E p \in ps : p.user = name

ProfileOf(ps, name) == CHOOSE p \in ps : p.user = name

\* Profile field defaults
DefaultFirstName == "Aktualisiere deinen Namen"

DefaultLastName == "Aktualisiere deinen Nachnamen"

DefaultLocation == "location"

ProfileTypes == {"business", "customer"}

RegistrationFields == {"username", "password", "repeated_password", "email", "type"}

\* RegistrationSerializer: field validation, then validate
RegistrationErrors(us, body) ==
    IF RegistrationFields \ DOMAIN body # {} THEN {"required"}
    ELSE IF body.type \notin ProfileTypes THEN {"invalid_choice"}
    ELSE IF \/ body.username \in Users
            \/ UserExists(us, body.username)
            \/ \E u \in us : u.email = body.email
         THEN {"exists"}
    ELSE IF body.password # body.repeated_password THEN {"mismatch"}
    ELSE {}

\* User.objects.create_user(username, email, password)
create_user(us, body) ==
    us \cup {[username |-> body.username, email |-> body.email,
              first_name |-> "", last_name |-> ""]}

\* Profile.email is unique: the insert raises IntegrityError
profile_create_raises(ps, body) == \E p \in ps : p.email = body.email

\* Profile.objects.create(user=user, email=email, type=user_type)
profile_create(ps, body) ==
    ps \cup {[user |-> body.username, email |-> body.email, type |-> body.type,
              first_name |-> DefaultFirstName, last_name |-> DefaultLastName,
              location |-> DefaultLocation]}

\* RegistrationAPIView.post: is_valid, then RegistrationSerializer.create,
\* whose two inserts are committed one after the other
Register(body) ==
    LET errors == RegistrationErrors(users, body)
    IN  /\ UNCHANGED <<offers, details, nextOfferId, nextDetailId, saved, inflight,
                       reviewVars, orderVars>>
        /\ IF errors # {}
           THEN /\ UNCHANGED accountVars
                /\ last' = Response("register", "POST", Anonymous, 0, body, 400,
                                    CHOOSE e \in errors : TRUE)
           ELSE /\ users' = create_user(users, body)
                /\ IF profile_create_raises(profiles, body)
                   THEN /\ UNCHANGED profiles
                        /\ last' = Response("register", "POST", Anonymous, 0, body, 500,
                                            "IntegrityError")
                   ELSE /\ profiles' = profile_create(profiles, body)
                        /\ last' = Response("register", "POST", Anonymous, 0, body, 201, "")

\* allowed_fields of ProfileDetailsAPIView.patch
PatchAllowedFields ==
    {"username", "first_name", "last_name", "email", "location", "description",
     "working_hours", "tel", "file"}

\* allowed_fields of ProfileSerializer.validate
SerializerAllowedFields ==
    {"first_name", "last_name", "email", "file", "location", "description", "tel",
     "user", "working_hours"}

\* ProfileSerializer.update: sets the fields, copies first_name and
\* last_name to the User for every field it sets, saves the profile
profile_update(us, ps, name, body) ==
    LET p == Assign(ProfileOf(ps, name), body)
        u == UserByName(us, name)
    IN  [users |-> IF DOMAIN body = {} THEN us
                   ELSE (us \ {u}) \cup {[u EXCEPT !.first_name = p.first_name,
                                                   !.last_name = p.last_name]},
         profiles |-> (ps \ {ProfileOf(ps, name)}) \cup {p}]

\* a patch that does not compare the caller with the profile's user
patch_profile_by_anyone(us, ps, caller, id, body) ==
    IF ~is_authenticated(caller) THEN [status |-> 401, users |-> us, profiles |-> ps]
    ELSE IF ~ProfileExists(ps, id) THEN [status |-> 404, users |-> us, profiles |-> ps]
    ELSE IF DOMAIN body \ PatchAllowedFields # {}
         THEN [status |-> 400, users |-> us, profiles |-> ps]
    ELSE IF DOMAIN body \ SerializerAllowedFields # {}
         THEN [status |-> 400, users |-> us, profiles |-> ps]
    ELSE IF Has(body, "email") /\ \E p \in ps : p.user # id /\ p.email = body.email
         THEN [status |-> 400, users |-> us, profiles |-> ps]
    ELSE [status |-> 200] @@ profile_update(us, ps, id, body)

\* ProfileDetailsAPIView.patch: IsAuthenticated, get_object_or_404, the
\* owner check, the allow-list of the view, is_valid (the allow-list of the
\* serializer, the unique email), save
patch_profile(us, ps, caller, id, body) ==
    IF ~is_authenticated(caller) THEN [status |-> 401, users |-> us, profiles |-> ps]
    ELSE IF ~ProfileExists(ps, id) THEN [status |-> 404, users |-> us, profiles |-> ps]
    ELSE IF id # caller THEN [status |-> 403, users |-> us, profiles |-> ps]
    ELSE IF DOMAIN body \ PatchAllowedFields # {}
         THEN [status |-> 400, users |-> us, profiles |-> ps]
    ELSE IF DOMAIN body \ SerializerAllowedFields # {}
         THEN [status |-> 400, users |-> us, profiles |-> ps]
    ELSE IF Has(body, "email") /\ \E p \in ps : p.user # id /\ p.email = body.email
         THEN [status |-> 400, users |-> us, profiles |-> ps]
    ELSE [status |-> 200] @@ profile_update(us, ps, id, body)

PatchProfile(caller, id, body) ==
    LET out == patch_profile(users, profiles, caller, id, body)
    IN  /\ users' = out.users
        /\ profiles' = out.profiles
        /\ \E st \in (IF out.status = 401 THEN NotAuthenticatedStatuses ELSE {out.status}) :
               last' = Response("profile_patch", "PATCH", caller, id, body, st, "")
        /\ UNCHANGED <<offers, details, nextOfferId, nextDetailId, saved, inflight,
                       reviewVars, orderVars>>

NewNames == {"frank", "grace"}

Emails == {"f@x.de", "g@x.de"}

RegistrationBodies ==
    {[username |-> n, email |-> e, password |-> "pw", repeated_password |-> r, type |-> t] :
        n \in NewNames, e \in Emails, r \in {"pw"}, t \in ProfileTypes}
    \cup {[username |-> "frank", email |-> "f@x.de", password |-> "pw",
           repeated_password |-> "other", type |-> "customer"],
          [username |-> "grace", email |-> "g@x.de", password |-> "pw",
           repeated_password |-> "pw", type |-> "admin"],
          [username |-> "alice", email |-> "g@x.de", password |-> "pw",
           repeated_password |-> "pw", type |-> "customer"],
          [username |-> "grace", email |-> "g@x.de", password |-> "pw"]}

ProfileBodies ==
    {<<>>, [first_name |-> "Fay"], [email |-> "g@x.de"], [email |-> "f@x.de"],
     [type |-> "business"], [type |-> "customer"], [user |-> "grace"],
     [username |-> "fay"], [first_name |-> "Fay", type |-> "business"]}

NextAccounts ==
    \/ \E body \in RegistrationBodies : Register(body)
    \/ \E caller \in NewNames \cup {"alice", Anonymous}, id \in NewNames,
          body \in ProfileBodies : PatchProfile(caller, id, body)

SpecAccounts == Init /\ [][NextAccounts]_vars

(***************************************************************************)
(* OfferDetailSerializer(data=candidate).is_valid() on its own: the        *)
(* candidates are every choice of keys with the boundary values of every   *)
(* field.                                                                  *)
(***************************************************************************)
CandidateFields ==
    [title : {"Basic"},
     price : {1 * PriceUnit, PriceUnit + 10, 10556},
     delivery_time_in_days : {0, 1, 3},
     revisions : {-2, -1, 2},
     features : {<<>>, <<"logo">>},
     offer_type : {"basic", "gold"}]

Candidates == {[k \in K |-> f[k]] : f \in CandidateFields, K \in SUBSET DetailWritable}

\* is_valid(): the errors, one entry per failing field
ValidateDetail(candidate) ==
    /\ last' = [op |-> "validate", method |-> "", caller |-> Anonymous, pk |-> 0,
                body |-> candidate,
                status |-> IF DetailValid(candidate) THEN 200 ELSE 400,
                code |-> IF DetailValid(candidate) THEN "" ELSE "invalid",
                errors |-> DetailErrors(candidate)]
    /\ UNCHANGED <<offers, details, nextOfferId, nextDetailId, saved, inflight,
                   reviewVars, accountVars, orderVars>>

NextValidator == \E candidate \in Candidates : ValidateDetail(candidate)

SpecValidator == Init /\ [][NextValidator]_vars

(***************************************************************************)
(* Properties.                                                             *)
(***************************************************************************)
\* what the claims call a permitted caller of an update
OwnerOrStaff(caller, offer) == caller = offer.user \/ is_staff(caller)

\* an unauthenticated caller is told so; every other refusal is Forbidden
Refused(r) ==
    \/ r.status = 403 /\ r.code = "permission_denied"
    \/ r.caller = Anonymous /\ r.code = "not_authenticated"

TablesUnchanged == offers' = offers /\ details' = details

\* C1: every persisted OfferDetail holds a price that equals itself rounded
\* to two decimal places, whatever precision the request supplied.
C1_PricePersistedRounded == \A d \in details : d.price = Round2(d.price)

\* C2: an update of an existing offer (PATCH or PUT) succeeds only for the
\* offer's owner or a staff user; for every other caller it is refused and
\* the offer and all details are unchanged.
C2_UpdateOnlyByOwnerOrStaff ==
    [][(last'.op = "update" /\ OfferExists(offers, last'.pk)
        /\ ~OwnerOrStaff(last'.caller, OfferById(offers, last'.pk)))
       => (Refused(last') /\ TablesUnchanged)]_vars

\* C3: delete removes the offer only for its owner or for a staff user who
\* also holds a business profile; a staff non-owner with a customer profile
\* is refused with Forbidden and the offer still exists.
C3_DeleteOnlyByOwnerOrBusinessStaff ==
    [][(last'.op = "delete" /\ OfferExists(offers, last'.pk))
       => LET offer == OfferById(offers, last'.pk)
              caller == last'.caller
          IN  /\ ~OfferExists(offers', last'.pk)
                    => \/ caller = offer.user
                       \/ is_staff(caller) /\ profile_type(caller) = "business"
              /\ (caller # offer.user /\ is_staff(caller)
                  /\ profile_type(caller) = "customer")
                    => /\ last'.status = 403
                       /\ OfferExists(offers', last'.pk)]_vars

\* some entry of the request's details list fails the detail validator
SomeDetailInvalid(body) ==
    \E i \in Indices(InitialDetails(body)) : ~DetailValid(InitialDetails(body)[i])

\* C4: a create request in which at least one detail, at any position,
\* fails the detail validator persists nothing: the Offer and OfferDetail
\* tables are what they were, and a caller who is authenticated is answered
\* with the validation error.
C4_CreateAllOrNothing ==
    [][(last'.op = "create" /\ SomeDetailInvalid(last'.body))
       => /\ TablesUnchanged
          /\ last'.status # 201
          /\ is_authenticated(last'.caller)
                => last'.status = 400 /\ last'.code = "invalid"]_vars

\* C4 witness: with an offer already stored, a create request whose second
\* detail of two is invalid was answered 400.
C4_Witness ==
    /\ last.op = "create"
    /\ last.body = [title |-> "Logo", description |-> "text",
                    details |-> <<Basic, BadPrice>>]
    /\ last.status = 400
    /\ offers # {}
    /\ details # {}

\* the request body passes OfferSerializer's validation
CreateBodyValid(body) == CreateFieldsValid(body) /\ validate(body)

\* an offer appears only through a create request of a business user, who
\* becomes its owner
NewOffersAreByBusinessCaller ==
    \A o \in {x \in offers' : ~OfferExists(offers, x.id)} :
        /\ last'.op = "create"
        /\ profile_type(last'.caller) = "business"
        /\ o.user = last'.caller

\* C5 as stated: a create request of an authenticated caller without a
\* business profile is answered 403 business_profile_required and persists
\* nothing; every offer was created by a business caller.
C5_NonBusinessCreateIs403 ==
    [][/\ (last'.op = "create" /\ is_authenticated(last'.caller)
           /\ profile_type(last'.caller) # "business")
          => /\ last'.status = 403
             /\ last'.code = "business_profile_required"
             /\ TablesUnchanged
       /\ NewOffersAreByBusinessCaller]_vars

\* C5 amended: a create request of an authenticated caller without a
\* business profile persists nothing; it is answered 403
\* business_profile_required when the body passes validation and 400 when it
\* does not (validation runs first); every offer was created by a business
\* caller.
C5_NonBusinessCreateRefused ==
    [][/\ (last'.op = "create" /\ is_authenticated(last'.caller)
           /\ profile_type(last'.caller) # "business")
          => /\ TablesUnchanged
             /\ IF CreateBodyValid(last'.body)
                THEN last'.status = 403 /\ last'.code = "business_profile_required"
                ELSE last'.status = 400 /\ last'.code = "invalid"
       /\ NewOffersAreByBusinessCaller]_vars

\* C5 witness: a user without any profile posted a valid offer and was
\* answered 403 business_profile_required.
C5_Witness ==
    /\ last.op = "create"
    /\ profile_type(last.caller) = "none"
    /\ is_authenticated(last.caller)
    /\ CreateBodyValid(last.body)
    /\ last.status = 403
    /\ last.code = "business_profile_required"

\* C6 as stated: neither the offer list nor the single-offer read is ever
\* refused for lack of authentication.
C6_ReadsNeverNeedAuthentication ==
    (last.op = "list" \/ (last.op = "retrieve" /\ OfferExists(offers, last.pk)))
        => last.code # "not_authenticated"

\* C6 amended: the offer list is answered for any caller, authenticated or
\* not; the single-offer read is refused for lack of authentication exactly
\* when the caller is unauthenticated.
C6_ListOpenRetrieveAuthenticated ==
    /\ last.op = "list" => last.code # "not_authenticated" /\ last.status \notin {401, 403}
    /\ last.op = "retrieve" =>
          (last.code = "not_authenticated" <=> last.caller = Anonymous)

\* C6 witness: an unauthenticated caller read an existing offer by id and
\* was refused.
C6_Witness ==
    /\ last.op = "retrieve"
    /\ last.caller = Anonymous
    /\ OfferExists(offers, last.pk)
    /\ last.code = "not_authenticated"

\* the offer row after the patch: patched fields hold the patch's values,
\* the others keep theirs
Patched(offer, body) ==
    [k \in DOMAIN offer |->
        IF k \in {"title", "description", "image"} /\ Has(body, k) THEN body[k]
        ELSE offer[k]]

\* C7: every permitted update that changes scalar fields, with or without a
\* details list, succeeds and leaves the patch's title, description and
\* image in the offer, the other fields as they were.
C7_ScalarsAppliedUnconditionally ==
    [][(last'.op = "update" /\ OfferExists(offers, last'.pk)
        /\ OwnerOrStaff(last'.caller, OfferById(offers, last'.pk))
        /\ InitialDetails(last'.body) = <<>>)
       => /\ last'.status = 200
          /\ OfferExists(offers', last'.pk)
          /\ OfferById(offers', last'.pk)
                = Patched(OfferById(offers, last'.pk), last'.body)]_vars

\* the entry names no detail the offer pk currently owns
Unmatched(ds, pk, e) == ~Has(e, "id") \/ e.id \notin {d.id : d \in DetailsOf(ds, pk)}

\* a permitted update of an existing offer whose details list is not empty
\* and names no detail of that offer
UnmatchedUpdate ==
    /\ last'.op = "update"
    /\ OfferExists(offers, last'.pk)
    /\ OwnerOrStaff(last'.caller, OfferById(offers, last'.pk))
    /\ InitialDetails(last'.body) # <<>>
    /\ \A i \in Indices(last'.body.details) :
          Unmatched(details, last'.pk, last'.body.details[i])

\* every entry is a complete record the detail validator accepts and holds
\* only columns of the detail table
EntriesWellFormed(entries) ==
    \A i \in Indices(entries) :
        DetailValid(entries[i]) /\ DOMAIN entries[i] \subseteq DetailColumns

C9_UpdateFrame ==
    [][last'.op = "update"
       => /\ \A o \in OfferIds :
                Cardinality(DetailsOf(details', o)) = Cardinality(DetailsOf(details, o))
          /\ \A d \in details : d.offer # last'.pk => d \in details']_vars

\* C10: every persisted OfferDetail has delivery_time_in_days >= 1,
\* price > 1, revisions >= -1, a non-empty features list and an offer_type
\* among basic, standard, premium.
C10_DetailBounds ==
    \A d \in details :
        /\ d.delivery_time_in_days >= 1
        /\ d.price > 1 * PriceUnit
        /\ d.revisions >= -1
        /\ d.features # <<>>
        /\ d.offer_type \in OFFER_TYPES

\* the fields of a candidate that fail one of the four checks
FailingChecks(e) ==
    {k \in {"delivery_time_in_days", "price", "revisions", "features"} :
        \/ k = "delivery_time_in_days" /\ Has(e, k) /\ e[k] < 1
        \/ k = "price" /\ Has(e, k) /\ e[k] <= 1000
        \/ k = "revisions" /\ Has(e, k) /\ e[k] < -1
        \/ k = "features" /\ (~Has(e, k) \/ Len(e[k]) = 0)}

\* the fields the serializer requires besides: a title and a tier label
\* that is one of the three
FailingRequired(e) ==
    {k \in {"title", "offer_type"} :
        \/ ~Has(e, k)
        \/ k = "offer_type" /\ e[k] \notin {"basic", "standard", "premium"}}

C12_DeleteCascades ==
    /\ [](\A d \in details : OfferExists(offers, d.offer))
    /\ [][(last'.op = "delete" /\ OfferExists(offers, last'.pk)
           /\ ~OfferExists(offers', last'.pk))
          => /\ last'.status = 204
             /\ \A d \in DetailsOf(details, last'.pk) :
                    \A x \in details' : x.id # d.id
             /\ \A x \in details' : x.offer # last'.pk]_vars

\* C12 witness: a delete was answered 204, details that had been created
\* are gone with their offer, and another offer still has its details.
C12_Witness ==
    /\ last.op = "delete"
    /\ last.status = 204
    /\ Cardinality(details) < nextDetailId - 1
    /\ details # {}

\* the six tokens of the ordering vocabulary
Vocabulary ==
    {"created_at", "-created_at", "min_price", "-min_price", "updated_at", "-updated_at"}

\* how recently the offer was saved: its place in the order of the saves
Recency(pk) == CHOOSE i \in 1 .. Len(saved) : saved[i] = pk

\* the ids of a sequence of rows or of views
IdsOf(rows) == [i \in DOMAIN rows |-> rows[i].id]

IdsAscending(ids) == \A i, j \in DOMAIN ids : i < j => ids[i] < ids[j]

IdsDescending(ids) == \A i, j \in DOMAIN ids : i < j => ids[i] > ids[j]

MostRecentFirst(ids) == \A i, j \in DOMAIN ids : i < j => Recency(ids[i]) > Recency(ids[j])

LeastRecentFirst(ids) == \A i, j \in DOMAIN ids : i < j => Recency(ids[i]) < Recency(ids[j])

\* among the offers that have details, no offer comes before one whose
\* least price is lower
PricesAscending(ids) ==
    \A i, j \in DOMAIN ids :
        (i < j /\ DetailsOf(details, ids[i]) # {} /\ DetailsOf(details, ids[j]) # {})
            => \E a \in DetailsOf(details, ids[i]) :
                  \A b \in DetailsOf(details, ids[j]) : a.price <= b.price

PricesDescending(ids) == PricesAscending([i \in DOMAIN ids |-> ids[Len(ids) + 1 - i]])

C18_UnknownTokenIsDefault ==
    (last.op = "list" /\ last.status = 200
     /\ (Has(last.body, "ordering") => last.body.ordering \notin Vocabulary))
        => MostRecentFirst(IdsOf(last.results))

\* the offers that satisfy every predicate the request supplies
Matching(params) ==
    {o \in offers :
        /\ (Has(params, "creator_id") /\ params.creator_id # "")
              => o.user = params.creator_id
        /\ Has(params, "min_price")
              => /\ DetailsOf(details, o.id) # {}
                 /\ \A d \in DetailsOf(details, o.id) : d.price >= params.min_price
        /\ Has(params, "max_delivery_time")
              => \E d \in DetailsOf(details, o.id) :
                    d.delivery_time_in_days <= params.max_delivery_time}

\* C19: the offer list holds exactly the offers that satisfy every supplied
\* predicate (as many of them as fit the page of 6), each once; an absent
\* parameter imposes no constraint; the filtered set comes in the order of
\* the request: most recently updated first when no ordering is given, by
\* creation for created_at, by falling minimum price for -min_price.
C19_ListIsFilteredThenOrdered ==
    (last.op = "list" /\ last.status = 200)
        => LET ids == IdsOf(last.results)
               matching == {o.id : o \in Matching(last.body)}
           IN  /\ \A i \in DOMAIN ids : ids[i] \in matching
               /\ \A i, j \in DOMAIN ids : i # j => ids[i] # ids[j]
               /\ Len(ids) = IF Cardinality(matching) < 6 THEN Cardinality(matching) ELSE 6
               /\ ~Has(last.body, "ordering") => MostRecentFirst(ids)
               /\ (Has(last.body, "ordering") /\ last.body.ordering = "created_at")
                     => IdsAscending(ids)
               /\ (Has(last.body, "ordering") /\ last.body.ordering = "-min_price")
                     => PricesDescending(ids)

\* C19 witness: the list for max_delivery_time=5 holds an offer whose
\* details have the delivery times 3 and 7, and not every offer is listed.
C19_Witness ==
    /\ last.op = "list"
    /\ last.status = 200
    /\ last.body = [max_delivery_time |-> 5]
    /\ \E i \in DOMAIN last.results :
          {d.delivery_time_in_days : d \in DetailsOf(details, last.results[i].id)} = {3, 7}
    /\ Len(last.results) < Cardinality(offers)

\* C20: in every read of an offer (list or single get) min_price is the
\* least price and min_delivery_time the least delivery time among the
\* details the offer owns when it is read, and both are absent when it owns
\* none; so a read after an update shows the updated values.
C20_MinimaAreCurrent ==
    (last.op \in {"list", "retrieve"} /\ last.status = 200)
        => \A i \in DOMAIN last.results :
              LET view == last.results[i]
                  owned == DetailsOf(details, view.id)
              IN  /\ owned = {} => view.min_price = {} /\ view.min_delivery_time = {}
                  /\ owned # {}
                        => /\ \E d \in owned : view.min_price = {d.price}
                           /\ \A m \in view.min_price : \A d \in owned : m <= d.price
                           /\ \E d \in owned :
                                 view.min_delivery_time = {d.delivery_time_in_days}
                           /\ \A m \in view.min_delivery_time :
                                 \A d \in owned : m <= d.delivery_time_in_days

\* C20 witness: a single get shows the price and the delivery time that an
\* update has written (24.994 and 7) as the minima of a two-detail offer
\* after the cheaper detail was updated.
C20_Witness ==
    /\ last.op = "retrieve"
    /\ last.status = 200
    /\ Cardinality(last.results[1].details) = 2
    /\ last.results[1].min_price = {10556}
    /\ \E d \in DetailsOf(details, last.pk) : d.price = 24994


\* the offers a successful read has shown
ObservedOffers ==
    IF last.op \in {"list", "retrieve"} /\ last.status = 200
    THEN {last.results[i] : i \in 1 .. Len(last.results)}
    ELSE {}

CreatesInFlight == {c \in Clients : inflight[c].pc = "created"}

\* C13: offer creation is atomic: a read that runs between the statements
\* of a create never shows the new offer with fewer details than the
\* request supplied, and a create that ends in a failure leaves no offer
\* behind that has fewer details than the request supplied.
C13_CreateIsAtomic ==
    /\ [](\A v \in ObservedOffers, c \in CreatesInFlight :
             inflight[c].offer = v.id
                 => Cardinality(v.details) = Len(InitialDetails(inflight[c].body)))
    /\ [][\A c \in CreatesInFlight :
             inflight'[c].pc = "idle" /\ last'.status # 201
                 => \/ ~OfferExists(offers', inflight[c].offer)
                    \/ Cardinality(DetailsOf(details', inflight[c].offer))
                           = Len(InitialDetails(inflight[c].body))]_vars

\* the details a finished update names, as far as they belong to its offer,
\* hold the values of its patch
PatchHolds(c) ==
    LET r == inflight[c]
        entries == InitialDetails(r.body)
    IN  \A i \in Indices(entries), d \in DetailsOf(details, r.pk) :
            Has(entries[i], "id") /\ entries[i].id = d.id
                => \A k \in DOMAIN entries[i] \ {"id"} : d[k] = entries[i][k]

Succeeded(c) == inflight[c].pc = "done" /\ inflight[c].status = 200

\* C14: when two permitted updates of the same offer name disjoint detail
\* ids, then after both have completed, whatever the interleaving of their
\* statements was, the details each of them names hold the values of its
\* patch: neither update undoes the other's change.
C14_DisjointUpdatesBothApply ==
    \A c \in Clients, q \in Clients :
        /\ c # q
        /\ Succeeded(c) /\ Succeeded(q)
        /\ inflight[c].pk = inflight[q].pk
        /\ NamedIds(inflight[c].body) \cap NamedIds(inflight[q].body) = {}
        => PatchHolds(c) /\ PatchHolds(q)

C14_Witness ==
    /\ Succeeded(1) /\ Succeeded(2)
    /\ inflight[1].overlapped /\ inflight[2].overlapped
    /\ inflight[1].pk = inflight[2].pk
    /\ NamedIds(inflight[1].body) \cap NamedIds(inflight[2].body) = {}
    /\ \A c \in Clients :
           \E d \in DetailsOf(details, inflight[c].pk) : d.id \in NamedIds(inflight[c].body)
    /\ PatchHolds(1) /\ PatchHolds(2)
    /\ \A d \in DetailsOf(details, inflight[1].pk) : d.offer_type = Pro.offer_type


\* C15: whatever review creates, updates and deletes have run, there is
\* at most one Review for each pair of reviewer and business_user.
C15_OneReviewPerPair ==
    \A r1 \in reviews, r2 \in reviews :
        r1.reviewer = r2.reviewer /\ r1.business_user = r2.business_user => r1 = r2


\* C16: an order's status only moves from in_progress to completed or to
\* cancelled: an order is in_progress when it is created, and a status of
\* completed or cancelled is never changed by a later request.
C16_StatusOnlyMovesForward ==
    [][/\ \A o \in orders' :
              ~OrderExists(orders, o.id) => o.status = "in_progress"
       /\ \A o \in orders, n \in orders' :
              o.id = n.id /\ o.status \in {"completed", "cancelled"}
                  => n.status = o.status]_vars


\* C21: a page of the offer list never holds more than 6 offers, whatever
\* page_size the request asks for, and the count of the response is the
\* number of offers in the filtered set.
C21_PageIsCappedAndCounted ==
    (last.op = "list" /\ last.status = 200)
        => /\ Len(last.results) <= 6
           /\ last.count = Cardinality(Matching(last.body))

C21_Witness ==
    /\ last.op = "list"
    /\ last.status = 200
    /\ Has(last.body, "page_size") /\ last.body.page_size = "10"
    /\ last.count > 6
    /\ Len(last.results) = 6


\* C22: a POST to /orders/ by an authenticated caller whose profile type is
\* not customer is answered 403 and creates no order; every order that is
\* created comes from a caller with a customer profile and has that caller
\* as its customer_user, whatever the body carried.
C22_OnlyCustomersOrder ==
    [][/\ (/\ last'.op = "order_create"
           /\ is_authenticated(last'.caller)
           /\ profile_type(last'.caller) # "customer")
          => (last'.status = 403 /\ orders' = orders)
       /\ \A o \in orders' :
              ~OrderExists(orders, o.id)
                  => /\ last'.op = "order_create"
                     /\ profile_type(last'.caller) = "customer"
                     /\ o.customer_user = last'.caller]_vars


\* the supplied status is one of the three values
StatusSupplied(body) == Has(body, "status") /\ body.status \in order_status

\* the step is a PATCH of an order that exists
PatchesExisting == last'.op = "order_patch" /\ OrderExists(orders, last'.pk)

\* a PATCH changes at most the status of its order, and only for the
\* order's business_user with one of the three values
PatchChangesOnlyStatus ==
    (PatchesExisting /\ orders' # orders)
        => /\ last'.caller = OrderById(orders, last'.pk).business_user
           /\ StatusSupplied(last'.body)
           /\ orders' = (orders \ {OrderById(orders, last'.pk)})
                        \cup {[OrderById(orders, last'.pk) EXCEPT
                                  !.status = last'.body.status]}

BadStatusIs400 ==
    (/\ PatchesExisting
     /\ last'.caller = OrderById(orders, last'.pk).business_user
     /\ ~StatusSupplied(last'.body))
        => (last'.status = 400 /\ orders' = orders)

\* C23 as stated: a PATCH on an order changes its status only for the
\* order's business_user with one of the three values; a PATCH from any
\* other caller is answered 403, one with a missing or other status 400,
\* and in both cases the order is unchanged.
C23_PatchOnlyByBusinessUser ==
    [][/\ PatchChangesOnlyStatus
       /\ BadStatusIs400
       /\ (PatchesExisting /\ last'.caller # OrderById(orders, last'.pk).business_user)
             => (last'.status = 403 /\ orders' = orders)]_vars

\* C23: as above, with 403 for every other authenticated caller; a caller
\* who is not authenticated is refused as such (401 or 403) and the order
\* is unchanged.
C23_PatchOnlyByBusinessUserAuthenticated ==
    [][/\ PatchChangesOnlyStatus
       /\ BadStatusIs400
       /\ (/\ PatchesExisting
           /\ is_authenticated(last'.caller)
           /\ last'.caller # OrderById(orders, last'.pk).business_user)
             => (last'.status = 403 /\ orders' = orders)
       /\ (PatchesExisting /\ ~is_authenticated(last'.caller))
             => (last'.status \in NotAuthenticatedStatuses /\ orders' = orders)]_vars

C23_Witness ==
    /\ last.op = "order_patch"
    /\ last.status = 403
    /\ is_authenticated(last.caller)
    /\ StatusSupplied(last.body)
    /\ \E o \in orders :
           /\ o.id = last.pk
           /\ o.business_user # last.caller
           /\ o.status # last.body.status
           /\ o.customer_user = last.caller


\* the fields an order copies from its offer detail
SnapshotFields ==
    {"title", "revisions", "delivery_time_in_days", "price", "features", "offer_type"}

\* C24: when an order is saved for offer detail D, each of the fields
\* title, revisions, delivery_time_in_days, price, features and offer_type
\* holds the value the request set, and D's value at that time when the
\* request did not set it.
C24_OrderTakesDetailValues ==
    [][\A o \in orders' :
          ~OrderExists(orders, o.id)
              => \A f \in SnapshotFields :
                    o[f] = IF Has(last'.body, f) THEN last'.body[f]
                           ELSE DetailById(details, o.offer_detail_id)[f]]_vars


\* C27: the business_user of every order is the owner of the offer that
\* the order's offer detail belongs to.
C27_BusinessUserOwnsOrderedOffer ==
    \A o \in orders :
        \E d \in details :
            /\ d.id = o.offer_detail_id
            /\ OfferExists(offers, d.offer)
            /\ OfferById(offers, d.offer).user = o.business_user


\* C29: the title, price, revisions, delivery_time_in_days, features and
\* offer_type an order reports are the values taken when the order was
\* created: the stored values never change afterwards, and a read of the
\* order returns the stored values, also after the offer detail was updated.
C29_OrderReportsSnapshot ==
    /\ []((last.op = "order_retrieve" /\ last.status = 200)
             => \A f \in SnapshotFields :
                   last.results[1][f] = OrderById(orders, last.pk)[f])
    /\ [][\A o \in orders, n \in orders' :
             o.id = n.id => \A f \in SnapshotFields : n[f] = o[f]]_vars


\* the step is a PATCH of a profile that exists
PatchesProfile == last'.op = "profile_patch" /\ ProfileExists(profiles, last'.pk)

\* a body with a field outside the allow-list, sent by the profile's user,
\* is answered 400 and changes nothing; no step changes a profile's type
OutsideAllowListIs400 ==
    /\ (/\ PatchesProfile
        /\ last'.caller = last'.pk
        /\ DOMAIN last'.body \ PatchAllowedFields # {})
          => (last'.status = 400 /\ UNCHANGED accountVars)
    /\ \A p \in profiles, n \in profiles' : p.user = n.user => n.type = p.type

\* C25 as stated: a profile PATCH from a caller who is not the profile's
\* user is refused with 403, one whose body names a field outside the
\* allow-list is answered 400; in both cases the profile and its user are
\* unchanged, and a profile's type never changes.
C25_ProfilePatchGuarded ==
    [][/\ OutsideAllowListIs400
       /\ (PatchesProfile /\ last'.caller # last'.pk)
             => (last'.status = 403 /\ UNCHANGED accountVars)]_vars

\* C25: as above, with 403 for every authenticated caller who is not the
\* profile's user; a caller who is not authenticated is refused as such
\* (401 or 403) and nothing changes.
C25_ProfilePatchGuardedAuthenticated ==
    [][/\ OutsideAllowListIs400
       /\ (PatchesProfile /\ is_authenticated(last'.caller) /\ last'.caller # last'.pk)
             => (last'.status = 403 /\ UNCHANGED accountVars)
       /\ (PatchesProfile /\ ~is_authenticated(last'.caller))
             => (last'.status \in NotAuthenticatedStatuses /\ UNCHANGED accountVars)]_vars

C25_Witness ==
    /\ last.op = "profile_patch"
    /\ last.status = 400
    /\ last.caller = last.pk
    /\ Has(last.body, "type")
    /\ ProfileExists(profiles, last.pk)
    /\ ProfileOf(profiles, last.pk).type # last.body.type

\* C28: every user made by registration has exactly one Profile, of type
\* business or customer: a registration creates both the User and its
\* Profile or neither.
C28_EveryUserHasOneProfile ==
    \A u \in users :
        /\ Cardinality({p \in profiles : p.user = u.username}) = 1
        /\ \A p \in profiles : p.user = u.username => p.type \in ProfileTypes


\* C26: each offer's owner is the caller who created it: a create stores
\* the caller as the offer's user, and no later request changes the user
\* of an offer.
C26_OwnerIsCreator ==
    [][/\ \A n \in offers' : ~OfferExists(offers, n.id) => n.user = last'.caller
       /\ \A o \in offers, n \in offers' : o.id = n.id => n.user = o.user]_vars


\* the finished update of client c changed one scalar field only
ChangesOnly(c, field) ==
    /\ Succeeded(c)
    /\ DOMAIN inflight[c].body \cap ScalarFields = {field}
    /\ InitialDetails(inflight[c].body) = <<>>

\* C30: when two updates of the same offer, one changing only the title and
\* the other only the description, have both completed, the offer holds
\* both new values, whatever the interleaving of their loads and saves was.
C30_DisjointScalarUpdatesBothApply ==
    \A c, q \in Clients :
        /\ c # q
        /\ ChangesOnly(c, "title") /\ ChangesOnly(q, "description")
        /\ inflight[c].pk = inflight[q].pk
        => LET o == OfferById(offers, inflight[c].pk)
           IN  o.title = inflight[c].body.title
               /\ o.description = inflight[q].body.description

====
